---------------------------- MODULE Spec2Model ----------------------------
(***************************************************************************)
(* Intervention planner: the record scorer (compute_priority), the report  *)
(* builder (build_report) and the aggregators that fold the scored         *)
(* collection, modelled from src/intervention_planner.py.                  *)
(*                                                                         *)
(* Representation.                                                         *)
(*   - A date is its proleptic ordinal (an integer); the difference of two *)
(*     dates in days is the difference of the ordinals.                    *)
(*   - A float is a fixed-point integer in thousandths (risk 50.004 is     *)
(*     50004).  round(x, 2) is Round2; the input sets hold no value whose  *)
(*     third decimal is a 5 unless it is a multiple of 1/8, where the      *)
(*     binary value is exact and Python rounds half to even.               *)
(*   - Optional[T] is <<>> for None and <<v>> for a value v.               *)
(*   - The fields of every record are written in alphabetical order, the   *)
(*     order in which TLC keeps them.                                      *)
(***************************************************************************)
EXTENDS Integers, Sequences, FiniteSets, TLC

VARIABLES
    pc,        \* "start"; "load": rows are being read; "ready": build_report returned; "unit": a direct call returned
    args,      \* the run's configuration (parse_args namespace and today), <<>> before parse_args
    records,   \* List[ScholarRecord] read so far
    scored,    \* List[ScoredRecord] returned by build_report
    call,      \* the last direct call of a function of the module: its name, arguments and result
    run        \* a run of a program from its command line: the options, the position, the outputs

vars == <<pc, args, records, scored, call, run>>

---------------------------------------------------------------------------
(* Optional values *)

None == <<>>

Some(v) == <<v>>

IsNone(o) == o = <<>>

Val(o) == o[1]

---------------------------------------------------------------------------
(* Numbers and strings *)

\* n whole units as thousandths
Milli(n) == n * 1000

Max(a, b) == IF a >= b THEN a ELSE b

Min(a, b) == IF a <= b THEN a ELSE b

\* round(x, 2) of a value held in thousandths; the result is in thousandths too
Round2(m) ==
    LET r == m % 10
    IN  IF r < 5 THEN m - r
        ELSE IF r > 5 THEN m - r + 10
        ELSE IF ((m - 5) \div 10) % 2 = 0 THEN m - 5 ELSE m + 5

\* round(n / d, 2) for integers n >= 0 and d > 0, in thousandths
Round2Ratio(n, d) ==
    LET q == (100 * n) \div d
        rem == (100 * n) % d
    IN  IF 2 * rem < d THEN 10 * q
        ELSE IF 2 * rem > d THEN 10 * (q + 1)
        ELSE IF q % 2 = 0 THEN 10 * q ELSE 10 * (q + 1)

\* the characters of the strings of the model, in code-point order
Alphabet == " -0123456789ABCDEFGHIJKLMNOPQRSTUVWXYZabcdefghijklmnopqrstuvwxyz"

Ord(ch) == CHOOSE i \in 1..Len(Alphabet) : SubSeq(Alphabet, i, i) = ch

\* s < t for Python strings (lexicographic by code point)
StrLess(s, t) ==
    LET n == Min(Len(s), Len(t))
        diff == {i \in 1..n : SubSeq(s, i, i) # SubSeq(t, i, i)}
    IN  IF diff = {} THEN Len(s) < Len(t)
        ELSE LET k == CHOOSE i \in diff : \A j \in diff : i <= j
             IN  Ord(SubSeq(s, k, k)) < Ord(SubSeq(t, k, k))

\* str.strip() for strings padded with blanks
strip(s) ==
    LET keep == {i \in 1..Len(s) : SubSeq(s, i, i) # " "}
    IN  IF keep = {} THEN ""
        ELSE LET lo == CHOOSE i \in keep : \A j \in keep : i <= j
                 hi == CHOOSE i \in keep : \A j \in keep : i >= j
             IN  SubSeq(s, lo, hi)

\* the position of the capital letters in Alphabet, and the distance to the small ones
LowerCh(ch) ==
    LET i == Ord(ch)
    IN  IF i >= 13 /\ i <= 38 THEN SubSeq(Alphabet, i + 26, i + 26) ELSE ch

\* str.lower()
RECURSIVE lower(_)
lower(s) == IF Len(s) = 0 THEN "" ELSE LowerCh(SubSeq(s, 1, 1)) \o lower(SubSeq(s, 2, Len(s)))

\* date.isoformat(): the text of a date, here the text of its ordinal
isoformat(d) == "D" \o ToString(d)

\* list.sort / sorted: the stable sort of seq; before is the strict weak order of the sort
\* key, as the set of the pairs <<i, j>> of positions with key(seq[i]) < key(seq[j])
StableSort(seq, before) ==
    LET n == Len(seq)
        rank(i) == Cardinality({j \in 1..n :
                        \/ <<j, i>> \in before
                        \/ (<<i, j>> \notin before /\ j < i)}) + 1
    IN  [k \in 1..n |-> seq[CHOOSE i \in 1..n : rank(i) = k]]

\* the pairs of positions of a list
Pairs(seq) == (1..Len(seq)) \X (1..Len(seq))

\* seq[:limit] for limit >= 0
Take(seq, limit) == SubSeq(seq, 1, Min(limit, Len(seq)))

---------------------------------------------------------------------------
(* The scorer *)

HIGH_IMPACT_FLAGS == {"crisis", "housing", "food", "health", "safety", "financial"}

normalize_owner(owner) ==
    LET value == strip(owner)
    IN  IF value = "" THEN "Unassigned" ELSE value

\* faulty variant: the high threshold is exclusive
cadence_for_risk_ExclusiveHigh(score, high, medium) ==
    IF score > high THEN <<"high", 7>>
    ELSE IF score >= medium THEN <<"medium", 21>>
    ELSE <<"low", 45>>

cadence_for_risk(score, high, medium) ==
    IF score >= high THEN <<"high", 7>>
    ELSE IF score >= medium THEN <<"medium", 21>>
    ELSE <<"low", 45>>

\* faulty variant: a record is overdue on its due day
IsOverdue_OnDueDay(due_delta) == due_delta <= 0

\* line 135
IsOverdue(due_delta) == due_delta < 0

\* faulty variant: the last day of the soon window is left out
IsDueSoon_Exclusive(due_delta, soon_days) == 0 <= due_delta /\ due_delta < soon_days

\* line 136
IsDueSoon(due_delta, soon_days) == 0 <= due_delta /\ due_delta <= soon_days

\* faulty variant: staleness is counted from the due date, not from the last touch
DueFields_StaleSinceDue(last_touch, today, cadence_days, soon_days) ==
    IF ~IsNone(last_touch)
    THEN LET days_since == today - Val(last_touch)
             due_date == Val(last_touch) + cadence_days
             due_delta == due_date - today
         IN  [days_since |-> Some(days_since),
              due_date |-> Some(due_date),
              due_delta |-> Some(due_delta),
              due_soon |-> IsDueSoon(due_delta, soon_days),
              overdue |-> IsOverdue(due_delta),
              overdue_days |-> Some(Max(0, -due_delta)),
              stale_days_value |-> Some(days_since - cadence_days)]
    ELSE [days_since |-> None,
          due_date |-> None,
          due_delta |-> None,
          due_soon |-> FALSE,
          overdue |-> FALSE,
          overdue_days |-> None,
          stale_days_value |-> None]

\* lines 130-144: the day counts of a record, all absent without a last touch
DueFields(last_touch, today, cadence_days, soon_days) ==
    IF ~IsNone(last_touch)
    THEN LET days_since == today - Val(last_touch)
             due_date == Val(last_touch) + cadence_days
             due_delta == due_date - today
         IN  [days_since |-> Some(days_since),
              due_date |-> Some(due_date),
              due_delta |-> Some(due_delta),
              due_soon |-> IsDueSoon(due_delta, soon_days),
              overdue |-> IsOverdue(due_delta),
              overdue_days |-> Some(Max(0, -due_delta)),
              stale_days_value |-> Some(days_since)]
    ELSE [days_since |-> None,
          due_date |-> None,
          due_delta |-> None,
          due_soon |-> FALSE,
          overdue |-> FALSE,
          overdue_days |-> None,
          stale_days_value |-> None]

\* faulty variant: the high tier also raises the priority
ApplyTier_TierBoost(risk_score, tier) ==
    [priority |-> IF tier = "high" THEN risk_score + Milli(10) ELSE risk_score,
     reasons |-> IF tier = "high" THEN <<"high risk tier">>
                 ELSE IF tier = "medium" THEN <<"medium risk tier">>
                 ELSE <<>>,
     stale_touch |-> FALSE]

\* lines 146-150: priority starts at the risk score; the tier adds a reason only
ApplyTier(risk_score, tier) ==
    [priority |-> risk_score,
     reasons |-> IF tier = "high" THEN <<"high risk tier">>
                 ELSE IF tier = "medium" THEN <<"medium risk tier">>
                 ELSE <<>>,
     stale_touch |-> FALSE]

\* faulty variant: a smaller boost for a record never touched
ApplyNoTouch_Boost20(acc, last_touch) ==
    IF IsNone(last_touch)
    THEN [acc EXCEPT !.priority = @ + Milli(20),
                     !.reasons = Append(@, "no previous touch")]
    ELSE acc

\* lines 151-153
ApplyNoTouch(acc, last_touch) ==
    IF IsNone(last_touch)
    THEN [acc EXCEPT !.priority = @ + Milli(25),
                     !.reasons = Append(@, "no previous touch")]
    ELSE acc

\* faulty variant: the stale boost is applied without its reason
ApplyStale_NoReason(acc, last_touch, stale_days_value, stale_days, stale_boost) ==
    IF ~IsNone(last_touch) /\ ~IsNone(stale_days_value) /\ Val(stale_days_value) >= stale_days
    THEN [acc EXCEPT !.priority = @ + stale_boost,
                     !.stale_touch = TRUE]
    ELSE acc

\* lines 154-157
ApplyStale(acc, last_touch, stale_days_value, stale_days, stale_boost) ==
    IF ~IsNone(last_touch) /\ ~IsNone(stale_days_value) /\ Val(stale_days_value) >= stale_days
    THEN [acc EXCEPT !.priority = @ + stale_boost,
                     !.stale_touch = TRUE,
                     !.reasons = Append(@, "stale last touch (" \o ToString(Val(stale_days_value)) \o " days)")]
    ELSE acc

\* faulty variant: a stale record gets no overdue or due-soon contribution
ApplyDue_ElifStale(acc, d) ==
    IF acc.stale_touch THEN acc
    ELSE IF d.overdue
    THEN [acc EXCEPT !.priority = @ + Milli(30),
                     !.reasons = Append(@, "overdue by " \o ToString(Val(d.overdue_days)) \o " days")]
    ELSE IF d.due_soon
    THEN LET days_until_due == IF ~IsNone(d.due_delta) THEN Val(d.due_delta) ELSE 0
         IN  [acc EXCEPT !.priority = @ + Milli(12),
                         !.reasons = Append(@, "due in " \o ToString(days_until_due) \o " days")]
    ELSE acc

\* lines 158-164
ApplyDue(acc, d) ==
    IF d.overdue
    THEN [acc EXCEPT !.priority = @ + Milli(30),
                     !.reasons = Append(@, "overdue by " \o ToString(Val(d.overdue_days)) \o " days")]
    ELSE IF d.due_soon
    THEN LET days_until_due == IF ~IsNone(d.due_delta) THEN Val(d.due_delta) ELSE 0
         IN  [acc EXCEPT !.priority = @ + Milli(12),
                         !.reasons = Append(@, "due in " \o ToString(days_until_due) \o " days")]
    ELSE acc

\* lines 166-169
RECURSIVE ApplyFlags(_, _)
ApplyFlags(acc, flags) ==
    IF flags = <<>> THEN acc
    ELSE LET flag == Head(flags)
             next == IF flag \in HIGH_IMPACT_FLAGS
                     THEN [acc EXCEPT !.priority = @ + Milli(8),
                                      !.reasons = Append(@, "flag: " \o flag)]
                     ELSE acc
         IN  ApplyFlags(next, Tail(flags))

\* lines 171-178
FinalStatus(last_touch, overdue, due_soon) ==
    IF IsNone(last_touch) THEN "no-touch"
    ELSE IF overdue THEN "overdue"
    ELSE IF due_soon THEN "due-soon"
    ELSE "on-track"

build_recommendation(tier, channel, status) ==
    LET ch == lower(strip(channel))
        channel_phrase ==
            IF ch \in {"sms", "text"} THEN "Send a brief text check-in"
            ELSE IF ch \in {"email"} THEN "Send a focused email check-in"
            ELSE IF ch \in {"call", "phone"} THEN "Schedule a short call"
            ELSE "Send a check-in"
        urgency ==
            IF status = "overdue" THEN "within 48 hours"
            ELSE IF status = "due-soon" THEN "within the next week"
            ELSE IF status = "no-touch" THEN "today"
            ELSE "during the next touch window"
        tier_phrase ==
            IF tier = "high" THEN "Confirm support needs and capture blockers"
            ELSE IF tier = "medium" THEN "Reconfirm goals and offer resource links"
            ELSE "Share a light encouragement and next milestone"
    IN  channel_phrase \o " " \o urgency \o ". " \o tier_phrase \o "."

compute_priority(record, today, high, medium, soon_days, stale_days, stale_boost) ==
    LET cr == cadence_for_risk(record.risk_score, high, medium)
        tier == cr[1]
        cadence_days == cr[2]
        d == DueFields(record.last_touch, today, cadence_days, soon_days)
        a1 == ApplyTier(record.risk_score, tier)
        a2 == ApplyNoTouch(a1, record.last_touch)
        a3 == ApplyStale(a2, record.last_touch, d.stale_days_value, stale_days, stale_boost)
        a4 == ApplyDue(a3, d)
        a5 == ApplyFlags(a4, record.flags)
        status == FinalStatus(record.last_touch, d.overdue, d.due_soon)
    IN  [cadence_days |-> cadence_days,
         channel_preference |-> record.channel_preference,
         cohort |-> record.cohort,
         days_since_touch |-> d.days_since,
         due_date |-> IF ~IsNone(d.due_date) THEN Some(isoformat(Val(d.due_date))) ELSE None,
         due_in_days |-> d.due_delta,
         flags |-> record.flags,
         last_touch |-> IF ~IsNone(record.last_touch) THEN Some(isoformat(Val(record.last_touch))) ELSE None,
         name |-> record.name,
         overdue_days |-> IF ~IsNone(d.due_delta) THEN d.overdue_days ELSE None,
         owner |-> record.owner,
         priority_reasons |-> a5.reasons,
         priority_score |-> Round2(a5.priority),
         recommended_action |-> build_recommendation(tier, record.channel_preference, status),
         risk_score |-> record.risk_score,
         scholar_id |-> record.scholar_id,
         stale_days |-> IF a5.stale_touch THEN d.stale_days_value ELSE None,
         stale_touch |-> a5.stale_touch,
         status |-> status]

\* sort(key=priority_score, reverse=True): descending, equal scores keep their order
ByPriorityDesc(a, b) == a.priority_score > b.priority_score

ByPriorityAsc(a, b) == a.priority_score < b.priority_score

Reverse(seq) == [k \in 1..Len(seq) |-> seq[Len(seq) + 1 - k]]

\* faulty variant: sorted ascending and then reversed, which reverses equal scores
build_report_SortThenReverse(recs, today, high, medium, soon_days, stale_days, stale_boost) ==
    LET scoredList == [i \in 1..Len(recs) |->
                          compute_priority(recs[i], today, high, medium, soon_days, stale_days, stale_boost)]
    IN  Reverse(StableSort(scoredList,
                           {p \in Pairs(scoredList) : ByPriorityAsc(scoredList[p[1]], scoredList[p[2]])}))

build_report(recs, today, high, medium, soon_days, stale_days, stale_boost) ==
    LET scoredList == [i \in 1..Len(recs) |->
                          compute_priority(recs[i], today, high, medium, soon_days, stale_days, stale_boost)]
    IN  StableSort(scoredList,
                   {p \in Pairs(scoredList) : ByPriorityDesc(scoredList[p[1]], scoredList[p[2]])})


---------------------------------------------------------------------------
(* Aggregators *)

\* faulty variant: the test of the tier is left out
IsEscalation_AnyTier(record, min_score) ==
    /\ record.status \in {"overdue", "no-touch"}
    /\ ~(record.priority_score < min_score)

\* lines 783-788: the records build_escalation_list keeps
IsEscalation(record, min_score) ==
    /\ record.cadence_days = 7
    /\ record.status \in {"overdue", "no-touch"}
    /\ ~(record.priority_score < min_score)

\* lines 789-803: the entry of a kept record
EscalationEntry(record) ==
    [cohort |-> record.cohort,
     due_date |-> record.due_date,
     last_touch |-> record.last_touch,
     name |-> record.name,
     owner |-> record.owner,
     priority_reasons |-> record.priority_reasons,
     priority_score |-> record.priority_score,
     recommended_action |-> record.recommended_action,
     risk_score |-> record.risk_score,
     scholar_id |-> record.scholar_id,
     status |-> record.status]

\* line 804: key (-priority_score, name)
EscalationBefore(a, b) ==
    \/ a.priority_score > b.priority_score
    \/ (a.priority_score = b.priority_score /\ StrLess(a.name, b.name))

build_escalation_list(scoredList, limit, min_score) ==
    LET kept == SelectSeq(scoredList, LAMBDA r : IsEscalation(r, min_score))
        candidates == [i \in 1..Len(kept) |-> EscalationEntry(kept[i])]
        sorted == StableSort(candidates,
                             {p \in Pairs(candidates) : EscalationBefore(candidates[p[1]], candidates[p[2]])})
    IN  Take(sorted, limit)

\* the index of owner's bucket in a list of buckets, 0 when there is none
BucketIndex(buckets, owner) ==
    IF \E i \in 1..Len(buckets) : buckets[i].owner = owner
    THEN CHOOSE i \in 1..Len(buckets) : buckets[i].owner = owner
    ELSE 0

\* lines 463-475: buckets.setdefault(owner, {...})
CapacitySetDefault(buckets, owner, window_days, daily_capacity) ==
    IF BucketIndex(buckets, owner) # 0 THEN buckets
    ELSE Append(buckets,
                [capacity |-> daily_capacity * window_days,
                 daily_capacity |-> daily_capacity,
                 due_within_window |-> 0,
                 gap |-> 0,
                 overdue |-> 0,
                 owner |-> owner,
                 utilization |-> 0,
                 window_days |-> window_days])

\* faulty variant: an overdue record is counted as due whatever include_overdue says
CapacityCount_AlwaysOverdue(bucket, due_in_days, window_days, include_overdue) ==
    IF IsNone(due_in_days) THEN bucket
    ELSE IF Val(due_in_days) < 0
    THEN [bucket EXCEPT !.overdue = @ + 1, !.due_within_window = @ + 1]
    ELSE IF Val(due_in_days) <= window_days
    THEN [bucket EXCEPT !.due_within_window = @ + 1]
    ELSE bucket

\* lines 476-485: one record counted into its owner's bucket
CapacityCount(bucket, due_in_days, window_days, include_overdue) ==
    IF IsNone(due_in_days) THEN bucket
    ELSE IF Val(due_in_days) < 0
    THEN [bucket EXCEPT !.overdue = @ + 1,
                        !.due_within_window = IF include_overdue THEN @ + 1 ELSE @]
    ELSE IF Val(due_in_days) <= window_days
    THEN [bucket EXCEPT !.due_within_window = @ + 1]
    ELSE bucket

\* lines 461-485: the loop over the scored records
RECURSIVE CapacityFold(_, _, _, _, _)
CapacityFold(buckets, scoredList, window_days, daily_capacity, include_overdue) ==
    IF scoredList = <<>> THEN buckets
    ELSE LET record == Head(scoredList)
             owner == normalize_owner(record.owner)
             withOwner == CapacitySetDefault(buckets, owner, window_days, daily_capacity)
             i == BucketIndex(withOwner, owner)
             counted == [withOwner EXCEPT ![i] =
                            CapacityCount(@, record.due_in_days, window_days, include_overdue)]
         IN  CapacityFold(counted, Tail(scoredList), window_days, daily_capacity, include_overdue)

\* lines 487-494: gap and utilization of a bucket
CapacityFinish(bucket) ==
    LET capacity == bucket.capacity
        due_within == bucket.due_within_window
    IN  [bucket EXCEPT !.gap = Max(0, due_within - capacity),
                       !.utilization = IF capacity > 0 THEN Round2Ratio(due_within, capacity) ELSE 0]

\* faulty variant: the key ends at due_within_window, so tied owners keep insertion order
CapacityBefore_NoOwnerKey(a, b) ==
    \/ a.gap > b.gap
    \/ (a.gap = b.gap /\ a.overdue > b.overdue)
    \/ (a.gap = b.gap /\ a.overdue = b.overdue /\ a.due_within_window > b.due_within_window)

\* lines 496-504: key (-gap, -overdue, -due_within_window, owner)
CapacityBefore(a, b) ==
    \/ a.gap > b.gap
    \/ (a.gap = b.gap /\ a.overdue > b.overdue)
    \/ (a.gap = b.gap /\ a.overdue = b.overdue /\ a.due_within_window > b.due_within_window)
    \/ (a.gap = b.gap /\ a.overdue = b.overdue /\ a.due_within_window = b.due_within_window
            /\ StrLess(a.owner, b.owner))

summarize_owner_capacity(scoredList, window_days_arg, daily_capacity_arg, include_overdue) ==
    LET window_days == Max(1, window_days_arg)
        daily_capacity == Max(0, daily_capacity_arg)
        buckets == CapacityFold(<<>>, scoredList, window_days, daily_capacity, include_overdue)
        finished == [i \in 1..Len(buckets) |-> CapacityFinish(buckets[i])]
    IN  StableSort(finished,
                   {p \in Pairs(finished) : CapacityBefore(finished[p[1]], finished[p[2]])})

\* faulty variant: the last day of the window is counted as beyond the window
ForecastCount_ShortWindow(counts, due_in_days, window_days, include_overdue) ==
    IF IsNone(due_in_days) THEN [counts EXCEPT !.no_due_date = @ + 1]
    ELSE IF Val(due_in_days) < 0
    THEN [counts EXCEPT !.overdue = @ + 1,
                        !.daily = IF include_overdue THEN [@ EXCEPT ![1] = @ + 1] ELSE @]
    ELSE IF Val(due_in_days) < window_days
    THEN [counts EXCEPT !.daily = [@ EXCEPT ![Val(due_in_days) + 1] = @ + 1]]
    ELSE [counts EXCEPT !.beyond_window = @ + 1]

\* lines 424-436: one record counted into the forecast; daily_counts[offset] is counts.daily[offset + 1]
ForecastCount(counts, due_in_days, window_days, include_overdue) ==
    IF IsNone(due_in_days) THEN [counts EXCEPT !.no_due_date = @ + 1]
    ELSE IF Val(due_in_days) < 0
    THEN [counts EXCEPT !.overdue = @ + 1,
                        !.daily = IF include_overdue THEN [@ EXCEPT ![1] = @ + 1] ELSE @]
    ELSE IF Val(due_in_days) <= window_days
    THEN [counts EXCEPT !.daily = [@ EXCEPT ![Val(due_in_days) + 1] = @ + 1]]
    ELSE [counts EXCEPT !.beyond_window = @ + 1]

\* lines 423-436: the loop over the scored records
RECURSIVE ForecastFold(_, _, _, _)
ForecastFold(counts, scoredList, window_days, include_overdue) ==
    IF scoredList = <<>> THEN counts
    ELSE ForecastFold(ForecastCount(counts, Head(scoredList).due_in_days, window_days, include_overdue),
                      Tail(scoredList), window_days, include_overdue)

\* faulty variant: the daily list has window_days entries, one fewer than the days written
summarize_touchpoint_forecast_ShortList(scoredList, today, window_days_arg, include_overdue) ==
    LET window_days == Max(1, window_days_arg)
        start == [beyond_window |-> 0,
                  daily |-> [k \in 1..window_days |-> 0], no_due_date |-> 0, overdue |-> 0]
        counts == ForecastFold(start, scoredList, window_days, include_overdue)
    IN  [beyond_window |-> counts.beyond_window,
         daily |-> [k \in 1..Len(counts.daily) |->
                       [count |-> counts.daily[k], date |-> isoformat(today + (k - 1))]],
         include_overdue |-> include_overdue,
         no_due_date |-> counts.no_due_date,
         overdue |-> counts.overdue,
         window_days |-> window_days]

summarize_touchpoint_forecast(scoredList, today, window_days_arg, include_overdue) ==
    LET window_days == Max(1, window_days_arg)
        start == [beyond_window |-> 0,
                  daily |-> [k \in 1..(window_days + 1) |-> 0], no_due_date |-> 0, overdue |-> 0]
        counts == ForecastFold(start, scoredList, window_days, include_overdue)
    IN  [beyond_window |-> counts.beyond_window,
         daily |-> [k \in 1..Len(counts.daily) |->
                       [count |-> counts.daily[k], date |-> isoformat(today + (k - 1))]],
         include_overdue |-> include_overdue,
         no_due_date |-> counts.no_due_date,
         overdue |-> counts.overdue,
         window_days |-> window_days]

\* faulty variant: a record due in exactly 14 days falls into the next bucket
HorizonBucket_Exclusive14(due_in_days) ==
    IF IsNone(due_in_days) THEN "no_due_date"
    ELSE IF Val(due_in_days) < 0 THEN "overdue"
    ELSE IF Val(due_in_days) <= 7 THEN "next_7_days"
    ELSE IF Val(due_in_days) < 14 THEN "next_14_days"
    ELSE IF Val(due_in_days) <= 30 THEN "next_30_days"
    ELSE "later"

\* lines 347-359: the horizon bucket of a record, by its due_in_days
HorizonBucket(due_in_days) ==
    IF IsNone(due_in_days) THEN "no_due_date"
    ELSE IF Val(due_in_days) < 0 THEN "overdue"
    ELSE IF Val(due_in_days) <= 7 THEN "next_7_days"
    ELSE IF Val(due_in_days) <= 14 THEN "next_14_days"
    ELSE IF Val(due_in_days) <= 30 THEN "next_30_days"
    ELSE "later"

\* lines 346-359: one record counted into its horizon bucket
HorizonCount(buckets, due_in_days) ==
    [buckets EXCEPT ![HorizonBucket(due_in_days)] = @ + 1]

\* lines 346-359: the loop over the scored records
RECURSIVE HorizonFold(_, _)
HorizonFold(buckets, scoredList) ==
    IF scoredList = <<>> THEN buckets
    ELSE HorizonFold(HorizonCount(buckets, Head(scoredList).due_in_days), Tail(scoredList))

summarize_touchpoint_horizon(scoredList) ==
    HorizonFold([later |-> 0, next_14_days |-> 0, next_30_days |-> 0, next_7_days |-> 0,
                 no_due_date |-> 0, overdue |-> 0],
                scoredList)

\* round(num / d, 2) for num in thousandths and an integer d > 0, in thousandths
Round2Div(num, d) ==
    LET q == num \div (10 * d)
        rem == num % (10 * d)
    IN  IF 2 * rem < 10 * d THEN 10 * q
        ELSE IF 2 * rem > 10 * d THEN 10 * (q + 1)
        ELSE IF q % 2 = 0 THEN 10 * q ELSE 10 * (q + 1)

\* faulty variant: the previous average is weighted by the new count
RunningAverage_NewCount(avg_priority, total, priority_score) ==
    Round2Div(avg_priority * total + priority_score, total)

\* lines 382-385, 586-589, 634-637, 749-752: the average after the record that makes the total
RunningAverage(avg_priority, total, priority_score) ==
    Round2Div(avg_priority * (total - 1) + priority_score, total)

\* lines 367-380: owners.setdefault(owner, {...})
OwnerHorizonSetDefault(owners, owner) ==
    IF BucketIndex(owners, owner) # 0 THEN owners
    ELSE Append(owners,
                [avg_priority |-> 0, later |-> 0, next_14_days |-> 0, next_30_days |-> 0,
                 next_7_days |-> 0, no_due_date |-> 0, overdue |-> 0, owner |-> owner,
                 total |-> 0])

\* lines 381-398: the record counted into the bucket
OwnerHorizonCount(bucket, record) ==
    LET total == bucket.total + 1
    IN  [bucket EXCEPT !.total = total,
                       !.avg_priority = RunningAverage(@, total, record.priority_score),
                       ![HorizonBucket(record.due_in_days)] = @ + 1]

\* faulty variant: the bucket is keyed by the owner as written, not by the normalized owner
OwnerHorizonStep_RawOwner(owners, record) ==
    LET owner == record.owner
        withOwner == OwnerHorizonSetDefault(owners, owner)
        i == BucketIndex(withOwner, owner)
    IN  [withOwner EXCEPT ![i] = OwnerHorizonCount(@, record)]

\* lines 365-398: one iteration of the loop
OwnerHorizonStep(owners, record) ==
    LET owner == normalize_owner(record.owner)
        withOwner == OwnerHorizonSetDefault(owners, owner)
        i == BucketIndex(withOwner, owner)
    IN  [withOwner EXCEPT ![i] = OwnerHorizonCount(@, record)]

\* lines 365-398: the loop over the scored records
RECURSIVE OwnerHorizonFold(_, _)
OwnerHorizonFold(owners, scoredList) ==
    IF scoredList = <<>> THEN owners
    ELSE OwnerHorizonFold(OwnerHorizonStep(owners, Head(scoredList)), Tail(scoredList))

\* lines 400-409: key (-overdue, -next_7_days, -next_14_days, -total, -avg_priority)
OwnerHorizonBefore(a, b) ==
    \/ a.overdue > b.overdue
    \/ (a.overdue = b.overdue /\ a.next_7_days > b.next_7_days)
    \/ (a.overdue = b.overdue /\ a.next_7_days = b.next_7_days /\ a.next_14_days > b.next_14_days)
    \/ (a.overdue = b.overdue /\ a.next_7_days = b.next_7_days /\ a.next_14_days = b.next_14_days
            /\ a.total > b.total)
    \/ (a.overdue = b.overdue /\ a.next_7_days = b.next_7_days /\ a.next_14_days = b.next_14_days
            /\ a.total = b.total /\ a.avg_priority > b.avg_priority)

summarize_owner_horizon(scoredList) ==
    LET owners == OwnerHorizonFold(<<>>, scoredList)
    IN  StableSort(owners, {p \in Pairs(owners) : OwnerHorizonBefore(owners[p[1]], owners[p[2]])})

\* lines 325-330: the tier an aggregator derives from the cadence of a record
TierOfCadence(cadence_days) ==
    IF cadence_days = 7 THEN "high"
    ELSE IF cadence_days = 21 THEN "medium"
    ELSE "low"

\* faulty variant: the map is keyed by the column name of due-soon, not by the status
StatusMapped_ColumnKey(status) ==
    IF status = "overdue" THEN "overdue"
    ELSE IF status = "due_soon" THEN "due_soon"
    ELSE IF status = "on-track" THEN "on_track"
    ELSE IF status = "no-touch" THEN "no_touch"
    ELSE ""

\* lines 318-323, 331: status_map.get(status), "" for None
StatusMapped(status) ==
    IF status = "overdue" THEN "overdue"
    ELSE IF status = "due-soon" THEN "due_soon"
    ELSE IF status = "on-track" THEN "on_track"
    ELSE IF status = "no-touch" THEN "no_touch"
    ELSE ""

\* lines 324-333: one record counted into its cell
StatusByRiskCount(buckets, record) ==
    LET tier == TierOfCadence(record.cadence_days)
        mapped == StatusMapped(record.status)
    IN  IF mapped # "" THEN [buckets EXCEPT ![tier][mapped] = @ + 1] ELSE buckets

\* lines 324-333: the loop over the scored records
RECURSIVE StatusByRiskFold(_, _)
StatusByRiskFold(buckets, scoredList) ==
    IF scoredList = <<>> THEN buckets
    ELSE StatusByRiskFold(StatusByRiskCount(buckets, Head(scoredList)), Tail(scoredList))

summarize_status_by_risk(scoredList) ==
    LET row == [due_soon |-> 0, no_touch |-> 0, on_track |-> 0, overdue |-> 0]
    IN  StatusByRiskFold([high |-> row, low |-> row, medium |-> row], scoredList)

\* the index of key in a list of keys, 0 when it is not there
IndexOfKey(keys, key) ==
    IF \E i \in 1..Len(keys) : keys[i] = key
    THEN CHOOSE i \in 1..Len(keys) : keys[i] = key
    ELSE 0

\* lines 522-529
normalize_channel(channel) ==
    LET value == lower(strip(channel))
    IN  IF value = "" THEN "unknown"
        ELSE IF value \in {"sms", "text"} THEN "sms"
        ELSE IF value \in {"phone", "call"} THEN "call"
        ELSE value

\* line 557: the key of the cohort bucket of a record
CohortKey(cohort) == IF cohort # "" THEN strip(cohort) ELSE "Unassigned"

\* faulty variant: the no-touch count looks for the key of the count, not for the status
RollupCount_NoTouchKey(bucket, record) ==
    LET total == bucket.total + 1
        tier == TierOfCadence(record.cadence_days)
    IN  [bucket EXCEPT
            !.total = total,
            !.overdue = IF record.status = "overdue" THEN @ + 1 ELSE @,
            !.due_soon = IF record.status = "due-soon" THEN @ + 1 ELSE @,
            !.no_touch = IF record.status = "no_touch" THEN @ + 1 ELSE @,
            !.high_risk = IF tier = "high" THEN @ + 1 ELSE @,
            !.medium_risk = IF tier = "medium" THEN @ + 1 ELSE @,
            !.low_risk = IF tier = "low" THEN @ + 1 ELSE @,
            !.avg_priority = RunningAverage(@, total, record.priority_score)]

\* lines 572-589 and 619-637: the record counted into a cohort or owner bucket
RollupCount(bucket, record) ==
    LET total == bucket.total + 1
        tier == TierOfCadence(record.cadence_days)
    IN  [bucket EXCEPT
            !.total = total,
            !.overdue = IF record.status = "overdue" THEN @ + 1 ELSE @,
            !.due_soon = IF record.status = "due-soon" THEN @ + 1 ELSE @,
            !.no_touch = IF record.status = "no-touch" THEN @ + 1 ELSE @,
            !.high_risk = IF tier = "high" THEN @ + 1 ELSE @,
            !.medium_risk = IF tier = "medium" THEN @ + 1 ELSE @,
            !.low_risk = IF tier = "low" THEN @ + 1 ELSE @,
            !.avg_priority = RunningAverage(@, total, record.priority_score)]

\* faulty variant: a record joins the bucket of its cohort only when that bucket is the
\* latest one, so that a cohort seen again after another one gets a second bucket
CohortStep_AdjacentOnly(cohorts, record) ==
    LET cohort == CohortKey(record.cohort)
        joins == Len(cohorts) > 0 /\ cohorts[Len(cohorts)].cohort = cohort
        withKey == IF joins THEN cohorts
                   ELSE Append(cohorts,
                               [avg_priority |-> 0, cohort |-> cohort, due_soon |-> 0,
                                high_risk |-> 0, low_risk |-> 0, medium_risk |-> 0,
                                no_touch |-> 0, overdue |-> 0, total |-> 0])
    IN  [withKey EXCEPT ![Len(withKey)] = RollupCount(@, record)]

\* lines 556-589: one iteration of the loop of summarize_cohorts
CohortStep(cohorts, record) ==
    LET cohort == CohortKey(record.cohort)
        keys == [i \in 1..Len(cohorts) |-> cohorts[i].cohort]
        withKey == IF IndexOfKey(keys, cohort) # 0 THEN cohorts
                   ELSE Append(cohorts,
                               [avg_priority |-> 0, cohort |-> cohort, due_soon |-> 0,
                                high_risk |-> 0, low_risk |-> 0, medium_risk |-> 0,
                                no_touch |-> 0, overdue |-> 0, total |-> 0])
        i == IF IndexOfKey(keys, cohort) # 0 THEN IndexOfKey(keys, cohort) ELSE Len(withKey)
    IN  [withKey EXCEPT ![i] = RollupCount(@, record)]

RECURSIVE CohortFold(_, _)
CohortFold(cohorts, scoredList) ==
    IF scoredList = <<>> THEN cohorts
    ELSE CohortFold(CohortStep(cohorts, Head(scoredList)), Tail(scoredList))

\* faulty variant: the average is left out of the sort key
RollupBefore_NoAverage(a, b) ==
    \/ a.overdue > b.overdue
    \/ (a.overdue = b.overdue /\ a.due_soon > b.due_soon)

\* lines 591-598 and 639-646: key (-overdue, -due_soon, -avg_priority)
RollupBefore(a, b) ==
    \/ a.overdue > b.overdue
    \/ (a.overdue = b.overdue /\ a.due_soon > b.due_soon)
    \/ (a.overdue = b.overdue /\ a.due_soon = b.due_soon /\ a.avg_priority > b.avg_priority)

summarize_cohorts(scoredList) ==
    LET cohorts == CohortFold(<<>>, scoredList)
    IN  StableSort(cohorts, {p \in Pairs(cohorts) : RollupBefore(cohorts[p[1]], cohorts[p[2]])})

\* lines 603-637: one iteration of the loop of summarize_owners
OwnerStep(owners, record) ==
    LET owner == normalize_owner(record.owner)
        keys == [i \in 1..Len(owners) |-> owners[i].owner]
        withKey == IF IndexOfKey(keys, owner) # 0 THEN owners
                   ELSE Append(owners,
                               [avg_priority |-> 0, due_soon |-> 0, high_risk |-> 0,
                                low_risk |-> 0, medium_risk |-> 0, no_touch |-> 0,
                                overdue |-> 0, owner |-> owner, total |-> 0])
        i == IF IndexOfKey(keys, owner) # 0 THEN IndexOfKey(keys, owner) ELSE Len(withKey)
    IN  [withKey EXCEPT ![i] = RollupCount(@, record)]

RECURSIVE OwnerFold(_, _)
OwnerFold(owners, scoredList) ==
    IF scoredList = <<>> THEN owners
    ELSE OwnerFold(OwnerStep(owners, Head(scoredList)), Tail(scoredList))

summarize_owners(scoredList) ==
    LET owners == OwnerFold(<<>>, scoredList)
    IN  StableSort(owners, {p \in Pairs(owners) : RollupBefore(owners[p[1]], owners[p[2]])})

\* lines 704-712: the example item of a record in an owner queue
QueueItem(record) ==
    [cohort |-> record.cohort, due_date |-> record.due_date, name |-> record.name,
     priority_score |-> record.priority_score, recommended_action |-> record.recommended_action,
     scholar_id |-> record.scholar_id, status |-> record.status]

\* faulty variant: one example item more than size is kept
OwnerQueueStep_OneMore(buckets, record, size) ==
    LET owner == normalize_owner(record.owner)
        keys == [i \in 1..Len(buckets) |-> buckets[i].owner]
        withKey == IF IndexOfKey(keys, owner) # 0 THEN buckets
                   ELSE Append(buckets, [items |-> <<>>, owner |-> owner, total |-> 0])
        i == IF IndexOfKey(keys, owner) # 0 THEN IndexOfKey(keys, owner) ELSE Len(withKey)
    IN  [withKey EXCEPT ![i] =
            [@ EXCEPT !.total = @ + 1,
                      !.items = IF Len(@) <= size THEN Append(@, QueueItem(record)) ELSE @]]

\* lines 691-713: one iteration of the loop of build_owner_queue
OwnerQueueStep(buckets, record, size) ==
    LET owner == normalize_owner(record.owner)
        keys == [i \in 1..Len(buckets) |-> buckets[i].owner]
        withKey == IF IndexOfKey(keys, owner) # 0 THEN buckets
                   ELSE Append(buckets, [items |-> <<>>, owner |-> owner, total |-> 0])
        i == IF IndexOfKey(keys, owner) # 0 THEN IndexOfKey(keys, owner) ELSE Len(withKey)
    IN  [withKey EXCEPT ![i] =
            [@ EXCEPT !.total = @ + 1,
                      !.items = IF Len(@) < size THEN Append(@, QueueItem(record)) ELSE @]]

RECURSIVE OwnerQueueFold(_, _, _)
OwnerQueueFold(buckets, scoredList, size) ==
    IF scoredList = <<>> THEN buckets
    ELSE OwnerQueueFold(OwnerQueueStep(buckets, Head(scoredList), size), Tail(scoredList), size)

\* lines 715-721: key (-total, owner)
OwnerQueueBefore(a, b) ==
    \/ a.total > b.total
    \/ (a.total = b.total /\ StrLess(a.owner, b.owner))

build_owner_queue(scoredList, limit, size) ==
    LET buckets == OwnerQueueFold(<<>>, scoredList, size)
        ordered == StableSort(buckets,
                              {p \in Pairs(buckets) : OwnerQueueBefore(buckets[p[1]], buckets[p[2]])})
    IN  Take(ordered, limit)

\* lines 756-765: the example item of a record in a channel batch
BatchItem(record) ==
    [cohort |-> record.cohort, due_date |-> record.due_date, name |-> record.name,
     owner |-> record.owner, priority_score |-> record.priority_score,
     recommended_action |-> record.recommended_action, scholar_id |-> record.scholar_id,
     status |-> record.status]

\* faulty variant: a full list of example items takes the record in place of its last item
ChannelBatchStep_KeepLatest(buckets, record, size) ==
    LET channel == normalize_channel(record.channel_preference)
        keys == [i \in 1..Len(buckets) |-> buckets[i].channel]
        withKey == IF IndexOfKey(keys, channel) # 0 THEN buckets
                   ELSE Append(buckets,
                               [avg_priority |-> 0, channel |-> channel, due_soon |-> 0,
                                items |-> <<>>, no_touch |-> 0, overdue |-> 0, total |-> 0])
        i == IF IndexOfKey(keys, channel) # 0 THEN IndexOfKey(keys, channel) ELSE Len(withKey)
        total == withKey[i].total + 1
    IN  [withKey EXCEPT ![i] =
            [@ EXCEPT !.total = total,
                      !.overdue = IF record.status = "overdue" THEN @ + 1 ELSE @,
                      !.due_soon = IF record.status = "due-soon" THEN @ + 1 ELSE @,
                      !.no_touch = IF record.status = "no-touch" THEN @ + 1 ELSE @,
                      !.avg_priority = RunningAverage(@, total, record.priority_score),
                      !.items = IF Len(@) < size THEN Append(@, BatchItem(record))
                                ELSE IF size > 0 THEN [@ EXCEPT ![Len(@)] = BatchItem(record)]
                                ELSE @]]

\* lines 727-766: one iteration of the loop of build_channel_batches
ChannelBatchStep(buckets, record, size) ==
    LET channel == normalize_channel(record.channel_preference)
        keys == [i \in 1..Len(buckets) |-> buckets[i].channel]
        withKey == IF IndexOfKey(keys, channel) # 0 THEN buckets
                   ELSE Append(buckets,
                               [avg_priority |-> 0, channel |-> channel, due_soon |-> 0,
                                items |-> <<>>, no_touch |-> 0, overdue |-> 0, total |-> 0])
        i == IF IndexOfKey(keys, channel) # 0 THEN IndexOfKey(keys, channel) ELSE Len(withKey)
        total == withKey[i].total + 1
    IN  [withKey EXCEPT ![i] =
            [@ EXCEPT !.total = total,
                      !.overdue = IF record.status = "overdue" THEN @ + 1 ELSE @,
                      !.due_soon = IF record.status = "due-soon" THEN @ + 1 ELSE @,
                      !.no_touch = IF record.status = "no-touch" THEN @ + 1 ELSE @,
                      !.avg_priority = RunningAverage(@, total, record.priority_score),
                      !.items = IF Len(@) < size THEN Append(@, BatchItem(record)) ELSE @]]

RECURSIVE ChannelBatchFold(_, _, _)
ChannelBatchFold(buckets, scoredList, size) ==
    IF scoredList = <<>> THEN buckets
    ELSE ChannelBatchFold(ChannelBatchStep(buckets, Head(scoredList), size), Tail(scoredList), size)

\* lines 768-776: key (-overdue, -due_soon, -total, -avg_priority)
ChannelBatchBefore(a, b) ==
    \/ a.overdue > b.overdue
    \/ (a.overdue = b.overdue /\ a.due_soon > b.due_soon)
    \/ (a.overdue = b.overdue /\ a.due_soon = b.due_soon /\ a.total > b.total)
    \/ (a.overdue = b.overdue /\ a.due_soon = b.due_soon /\ a.total = b.total
            /\ a.avg_priority > b.avg_priority)

build_channel_batches(scoredList, limit, size) ==
    LET buckets == ChannelBatchFold(<<>>, scoredList, size)
        ordered == StableSort(buckets,
                              {p \in Pairs(buckets) : ChannelBatchBefore(buckets[p[1]], buckets[p[2]])})
    IN  Take(ordered, limit)

\* faulty variant: an owner is flagged only above the overdue threshold
AlertReasons_Strict(bucket, overdue_threshold, no_touch_threshold, total_threshold) ==
    (IF bucket.overdue > overdue_threshold
     THEN <<"overdue >= " \o ToString(overdue_threshold)>> ELSE <<>>)
    \o (IF bucket.no_touch >= no_touch_threshold
        THEN <<"no-touch >= " \o ToString(no_touch_threshold)>> ELSE <<>>)
    \o (IF bucket.total >= total_threshold
        THEN <<"total >= " \o ToString(total_threshold)>> ELSE <<>>)

\* build_owner_alerts, lines 657-666: the reasons of one owner bucket
AlertReasons(bucket, overdue_threshold, no_touch_threshold, total_threshold) ==
    (IF bucket.overdue >= overdue_threshold
     THEN <<"overdue >= " \o ToString(overdue_threshold)>> ELSE <<>>)
    \o (IF bucket.no_touch >= no_touch_threshold
        THEN <<"no-touch >= " \o ToString(no_touch_threshold)>> ELSE <<>>)
    \o (IF bucket.total >= total_threshold
        THEN <<"total >= " \o ToString(total_threshold)>> ELSE <<>>)

\* lines 667-677: the alert of a bucket that has reasons
OwnerAlert(bucket, reasons) ==
    [avg_priority |-> bucket.avg_priority, no_touch |-> bucket.no_touch, overdue |-> bucket.overdue,
     owner |-> bucket.owner, reasons |-> reasons, total |-> bucket.total]

\* lines 655-677: the loop over the owner buckets
RECURSIVE OwnerAlertFold(_, _, _, _, _)
OwnerAlertFold(alerts, owners, overdue_threshold, no_touch_threshold, total_threshold) ==
    IF owners = <<>> THEN alerts
    ELSE LET reasons == AlertReasons(Head(owners), overdue_threshold, no_touch_threshold,
                                     total_threshold)
         IN  OwnerAlertFold(IF reasons # <<>> THEN Append(alerts, OwnerAlert(Head(owners), reasons))
                            ELSE alerts,
                            Tail(owners), overdue_threshold, no_touch_threshold, total_threshold)

\* lines 678-686: key (-overdue, -no_touch, -total, -avg_priority)
OwnerAlertBefore(a, b) ==
    \/ a.overdue > b.overdue
    \/ (a.overdue = b.overdue /\ a.no_touch > b.no_touch)
    \/ (a.overdue = b.overdue /\ a.no_touch = b.no_touch /\ a.total > b.total)
    \/ (a.overdue = b.overdue /\ a.no_touch = b.no_touch /\ a.total = b.total
            /\ a.avg_priority > b.avg_priority)

build_owner_alerts(owners, overdue_threshold, no_touch_threshold, total_threshold) ==
    LET alerts == OwnerAlertFold(<<>>, owners, overdue_threshold, no_touch_threshold,
                                 total_threshold)
    IN  StableSort(alerts, {p \in Pairs(alerts) : OwnerAlertBefore(alerts[p[1]], alerts[p[2]])})

\* faulty variant: the seventh day falls into the second bucket
AgingBucket_Exclusive7(days) ==
    IF days < 7 THEN "1-7"
    ELSE IF days <= 14 THEN "8-14"
    ELSE IF days <= 30 THEN "15-30"
    ELSE IF days <= 60 THEN "31-60"
    ELSE "61+"

\* summarize_overdue_aging, lines 284-293: the aging bucket of a number of overdue days
AgingBucket(days) ==
    IF days <= 7 THEN "1-7"
    ELSE IF days <= 14 THEN "8-14"
    ELSE IF days <= 30 THEN "15-30"
    ELSE IF days <= 60 THEN "31-60"
    ELSE "61+"

\* lines 281-294: the loop of summarize_overdue_aging
RECURSIVE OverdueAgingFold(_, _)
OverdueAgingFold(buckets, scoredList) ==
    IF scoredList = <<>> THEN buckets
    ELSE LET record == Head(scoredList)
         IN  OverdueAgingFold(
                 IF record.status # "overdue" \/ IsNone(record.overdue_days) THEN buckets
                 ELSE [buckets EXCEPT ![AgingBucket(Val(record.overdue_days))] = @ + 1],
                 Tail(scoredList))

summarize_overdue_aging(scoredList) ==
    OverdueAgingFold([b \in {"1-7", "8-14", "15-30", "31-60", "61+"} |-> 0], scoredList)

\* lines 299-308: the loop of summarize_no_touch_by_risk
RECURSIVE NoTouchByRiskFold(_, _)
NoTouchByRiskFold(counts, scoredList) ==
    IF scoredList = <<>> THEN counts
    ELSE LET record == Head(scoredList)
         IN  NoTouchByRiskFold(
                 IF record.status # "no-touch" THEN counts
                 ELSE [counts EXCEPT ![TierOfCadence(record.cadence_days)] = @ + 1],
                 Tail(scoredList))

summarize_no_touch_by_risk(scoredList) ==
    NoTouchByRiskFold([high |-> 0, low |-> 0, medium |-> 0], scoredList)

\* lines 509-518: the loop of summarize_stale_touch_by_risk
RECURSIVE StaleTouchByRiskFold(_, _)
StaleTouchByRiskFold(counts, scoredList) ==
    IF scoredList = <<>> THEN counts
    ELSE LET record == Head(scoredList)
         IN  StaleTouchByRiskFold(
                 IF ~record.stale_touch THEN counts
                 ELSE [counts EXCEPT ![TierOfCadence(record.cadence_days)] = @ + 1],
                 Tail(scoredList))

summarize_stale_touch_by_risk(scoredList) ==
    StaleTouchByRiskFold([high |-> 0, low |-> 0, medium |-> 0], scoredList)

\* summarize, lines 248-264: the record counted into the summary
SummaryCount(summary, record) ==
    [summary EXCEPT
        !.overdue = IF record.status = "overdue" THEN @ + 1 ELSE @,
        !.due_soon = IF record.status = "due-soon" THEN @ + 1 ELSE @,
        !.on_track = IF record.status = "on-track" THEN @ + 1 ELSE @,
        !.no_touch = IF record.status = "no-touch" THEN @ + 1 ELSE @,
        !.high_risk = IF record.cadence_days = 7 THEN @ + 1 ELSE @,
        !.medium_risk = IF record.cadence_days = 21 THEN @ + 1 ELSE @,
        !.low_risk = IF record.cadence_days \notin {7, 21} THEN @ + 1 ELSE @,
        !.stale_touch = IF record.stale_touch THEN @ + 1 ELSE @]

RECURSIVE SummaryFold(_, _)
SummaryFold(summary, scoredList) ==
    IF scoredList = <<>> THEN summary
    ELSE SummaryFold(SummaryCount(summary, Head(scoredList)), Tail(scoredList))

\* lines 235-270
summarize(scoredList) ==
    LET counts == SummaryFold([due_soon |-> 0, high_risk |-> 0, low_risk |-> 0, medium_risk |-> 0,
                               no_touch |-> 0, on_track |-> 0, overdue |-> 0, stale_touch |-> 0,
                               total |-> Len(scoredList)],
                              scoredList)
    IN  [due_soon |-> counts.due_soon, high_risk |-> counts.high_risk, low_risk |-> counts.low_risk,
         medium_risk |-> counts.medium_risk, no_touch |-> counts.no_touch,
         no_touch_by_risk |-> summarize_no_touch_by_risk(scoredList),
         on_track |-> counts.on_track, overdue |-> counts.overdue,
         overdue_aging |-> summarize_overdue_aging(scoredList),
         stale_touch |-> counts.stale_touch,
         stale_touch_by_risk |-> summarize_stale_touch_by_risk(scoredList),
         status_by_risk |-> summarize_status_by_risk(scoredList),
         total |-> counts.total,
         touchpoint_horizon |-> summarize_touchpoint_horizon(scoredList)]

\* the values of the eight aggregators of the report section over one list of scored records
Aggregates(scoredList, today, window_days, daily_capacity, include_overdue) ==
    [cohorts |-> summarize_cohorts(scoredList),
     forecast |-> summarize_touchpoint_forecast(scoredList, today, window_days, include_overdue),
     horizon |-> summarize_touchpoint_horizon(scoredList),
     owner_capacity |-> summarize_owner_capacity(scoredList, window_days, daily_capacity,
                                                 include_overdue),
     owner_horizon |-> summarize_owner_horizon(scoredList),
     owners |-> summarize_owners(scoredList),
     status_by_risk |-> summarize_status_by_risk(scoredList),
     summary |-> summarize(scoredList)]

\* the orderings of a list of n elements
Orderings(n) == {f \in [1..n -> 1..n] : \A i, j \in 1..n : f[i] = f[j] => i = j}

\* a list in another ordering
Reordered(seq, order) == [k \in 1..Len(seq) |-> seq[order[k]]]

---------------------------------------------------------------------------
(* The names the planner module defines (its def and class statements).    *)
(* Calling a name the module does not define raises AttributeError.        *)

PlannerNames ==
    {"ScholarRecord", "ScoredRecord", "parse_date", "safe_float", "parse_flags",
     "validate_schema_name", "default_run_label", "load_csv", "cadence_for_risk",
     "compute_priority", "build_recommendation", "summarize", "summarize_overdue_aging",
     "summarize_no_touch_by_risk", "summarize_status_by_risk", "summarize_touchpoint_horizon",
     "summarize_owner_horizon", "summarize_touchpoint_forecast", "summarize_owner_capacity",
     "summarize_stale_touch_by_risk", "normalize_channel", "normalize_owner",
     "summarize_channels", "summarize_flags", "summarize_cohorts", "summarize_owners",
     "build_owner_alerts", "build_owner_queue", "build_channel_batches",
     "build_escalation_list", "print_summary", "print_overdue_aging",
     "print_no_touch_by_risk", "print_status_by_risk", "print_touchpoint_horizon",
     "print_touchpoint_forecast", "print_owner_capacity", "print_stale_touch_by_risk",
     "print_channel_mix", "print_flag_highlights", "print_cohort_summary",
     "print_owner_summary", "print_owner_horizon", "print_owner_alerts",
     "print_owner_queue", "print_channel_batches", "print_escalation_list",
     "print_action_queue", "print_cadence_guidance", "build_report", "parse_args",
     "resolve_db_dsn", "require_psycopg", "ensure_db", "write_run_to_db", "main"}

---------------------------------------------------------------------------
(* Bounds and input sets *)

MaxRecords == 3

MaxLimit == 2

MaxWindow == 3

MaxCapacity == 2

MaxSize == 2

\* the run configurations: the defaults of parse_args, and a second setting
RunConfigs ==
    {[high_risk |-> Milli(70), medium_risk |-> Milli(40), soon_days |-> 14,
      stale_boost |-> Milli(15), stale_days |-> 60, today |-> 1000],
     [high_risk |-> Milli(90), medium_risk |-> Milli(50), soon_days |-> 2,
      stale_boost |-> 2500, stale_days |-> 30, today |-> 1000]}

\* the configurations of a direct call: also thresholds in the other order, and zero windows
UnitConfigs ==
    RunConfigs \cup
    {[high_risk |-> Milli(40), medium_risk |-> Milli(70), soon_days |-> 0,
      stale_boost |-> 0, stale_days |-> 0, today |-> 1000]}

\* the rows of the intake file
Roster ==
    {[channel_preference |-> "email", cohort |-> "2024", flags |-> <<"housing">>, last_touch |-> Some(960),
      name |-> "Avery", owner |-> "Casey", risk_score |-> Milli(92)],
     [channel_preference |-> "Phone", cohort |-> "2023", flags |-> <<>>, last_touch |-> Some(990),
      name |-> "Aaron", owner |-> "Dee", risk_score |-> Milli(100)],
     [channel_preference |-> "sms", cohort |-> "2024", flags |-> <<"crisis", "sports">>, last_touch |-> None,
      name |-> "Blake", owner |-> "Casey", risk_score |-> Milli(80)],
     [channel_preference |-> "", cohort |-> "", flags |-> <<>>, last_touch |-> Some(995),
      name |-> "Carmen", owner |-> "", risk_score |-> 45004],
     [channel_preference |-> " text ", cohort |-> "2023", flags |-> <<>>, last_touch |-> Some(995),
      name |-> "Dana", owner |-> " Dee ", risk_score |-> 97250],
     [channel_preference |-> "call", cohort |-> "2024", flags |-> <<"food">>, last_touch |-> Some(993),
      name |-> "Eli", owner |-> "Casey", risk_score |-> Milli(70)]}

UnitRisks == {-1006, Milli(10), 39996, Milli(40), 50004, 50006, 50125, Milli(70), Milli(92)}

UnitLastTouch ==
    {None} \cup {Some(1000 - k) : k \in {-3, 0, 6, 7, 8, 21, 22, 30, 45, 46, 60, 75}}

UnitFlags ==
    {<<>>, <<"housing">>, <<"crisis", "food">>, <<"food", "crisis">>, <<"sports">>,
     <<"housing", "sports", "housing">>}

\* (overdue, no-touch, total) thresholds of the owner alerts; the first is the default of
\* the command line and the call of the seed script
AlertThresholds == {<<2, 1, 8>>, <<1, 1, 1>>, <<2, 2, 2>>, <<1, 3, 3>>, <<3, 1, 2>>}

\* last contacts of the aging calls, as days before today: none, and days around the
\* edges of the aging buckets for the cadences 7, 21 and 45
AgingTouches ==
    {None} \cup {Some(k) : k \in {5, 8, 14, 15, 21, 22, 28, 29, 35, 36, 37, 38, 46, 52, 53,
                                  67, 68, 81, 82, 105, 106}}

\* risk scores of the aging calls: one in each tier of the default thresholds
AgingRisks == {Milli(10), Milli(50), Milli(92)}

MinScores == {0, Milli(113), Milli(130), 130010}

\* a ScholarRecord built from a row t of the intake file
ScholarRecord(t, id) ==
    [channel_preference |-> t.channel_preference, cohort |-> t.cohort, flags |-> t.flags,
     last_touch |-> t.last_touch, name |-> t.name, owner |-> t.owner,
     risk_score |-> t.risk_score, scholar_id |-> id]

---------------------------------------------------------------------------
(* The command lines of the two programs *)

Digits == "0123456789"

Letters == "ABCDEFGHIJKLMNOPQRSTUVWXYZabcdefghijklmnopqrstuvwxyz"

\* ch is one of the characters of the string chars
OneOf(ch, chars) == \E i \in 1..Len(chars) : SubSeq(chars, i, i) = ch

\* int(s) for a string of digits
RECURSIVE ToNumber(_)
ToNumber(s) ==
    IF Len(s) = 0 THEN 0
    ELSE 10 * ToNumber(SubSeq(s, 1, Len(s) - 1))
         + ((CHOOSE i \in 1..10 : SubSeq(Digits, i, i) = SubSeq(s, Len(s), Len(s))) - 1)

AllDigits(s) == \A i \in 1..Len(s) : OneOf(SubSeq(s, i, i), Digits)

\* s.split(sep) for a one-character separator
SplitAt(s, sep) ==
    LET at == {i \in 1..Len(s) : SubSeq(s, i, i) = sep}
        n == Cardinality(at)
        cut(k) == IF k = 0 THEN 0
                  ELSE IF k = n + 1 THEN Len(s) + 1
                  ELSE CHOOSE i \in at : Cardinality({j \in at : j < i}) = k - 1
    IN  [k \in 1..(n + 1) |-> SubSeq(s, cut(k - 1) + 1, cut(k) - 1)]

IsLeap(y) == (y % 4 = 0 /\ y % 100 # 0) \/ y % 400 = 0

DaysInMonth(y, m) ==
    IF m = 2 THEN (IF IsLeap(y) THEN 29 ELSE 28)
    ELSE IF m \in {4, 6, 9, 11} THEN 30 ELSE 31

RECURSIVE DaysBeforeMonth(_, _)
DaysBeforeMonth(y, m) == IF m = 1 THEN 0 ELSE DaysBeforeMonth(y, m - 1) + DaysInMonth(y, m - 1)

\* date(y, m, d).toordinal()
ToOrdinal(y, m, d) ==
    LET b == y - 1
    IN  b * 365 + b \div 4 - b \div 100 + b \div 400 + DaysBeforeMonth(y, m) + d

\* the day number of a date on the scale of the intake rows, where 1000 is 2024-06-01
DayNumber(y, m, d) == ToOrdinal(y, m, d) - ToOrdinal(2024, 6, 1) + 1000

\* datetime.strptime(value, fmt).date() for the three formats of parse_date, each three
\* numeric fields around one separator; yearAt is the position of the %Y field.
\* None stands for ValueError.
strptime(value, sep, yearAt) ==
    LET parts == SplitAt(value, sep)
        yy == parts[yearAt]
        mm == IF yearAt = 1 THEN parts[2] ELSE parts[1]
        dd == IF yearAt = 1 THEN parts[3] ELSE parts[2]
    IN  IF /\ Len(parts) = 3
           /\ AllDigits(yy) /\ Len(yy) = 4 /\ ToNumber(yy) >= 1
           /\ AllDigits(mm) /\ Len(mm) \in {1, 2} /\ ToNumber(mm) \in 1..12
           /\ AllDigits(dd) /\ Len(dd) \in {1, 2} /\ ToNumber(dd) >= 1
           /\ ToNumber(dd) <= DaysInMonth(ToNumber(yy), ToNumber(mm))
        THEN Some(DayNumber(ToNumber(yy), ToNumber(mm), ToNumber(dd)))
        ELSE None

\* lines 51-60
parse_date(text) ==
    LET value == strip(text)
    IN  IF value = "" THEN None
        ELSE IF ~IsNone(strptime(value, "-", 1)) THEN strptime(value, "-", 1)
        ELSE IF ~IsNone(strptime(value, "/", 3)) THEN strptime(value, "/", 3)
        ELSE strptime(value, "/", 1)

\* lines 76-77: re.match(r"^[A-Za-z_][A-Za-z0-9_]*$", schema); $ also matches before a
\* newline that ends the string
SchemaNameMatches(schema) ==
    LET n == IF Len(schema) >= 1 /\ SubSeq(schema, Len(schema), Len(schema)) = "\n"
             THEN Len(schema) - 1 ELSE Len(schema)
    IN  /\ n >= 1
        /\ OneOf(SubSeq(schema, 1, 1), Letters \o "_")
        /\ \A i \in 2..n : OneOf(SubSeq(schema, i, i), Letters \o Digits \o "_")

\* line 13
DEFAULT_DB_SCHEMA == "groupscholar_intervention_planner"

\* the messages of the two exits on invalid configuration
InvalidTodayExit == "Invalid --today date format. Use YYYY-MM-DD."

InvalidSchemaExit == "Invalid schema name. Use letters, numbers, and underscores only."

MissingDsnExit ==
    "Database env vars missing. Set GS_DB_DSN or GS_DB_HOST/GS_DB_NAME/GS_DB_USER/GS_DB_PASSWORD."

\* write_run_to_db, lines 1324-1386: the payload keys in the order they are read
PayloadReads ==
    <<"generated_at", "today", "summary", "channel_mix", "high_impact_flags", "cohort_summary",
      "owner_summary", "owner_horizon", "owner_capacity", "owner_queue", "touchpoint_forecast",
      "channel_batches", "escalation_candidates", "records">>

\* main, lines 1513-1528: the keys of the payload of the planner
MainPayload ==
    {"generated_at", "today", "summary", "channel_mix", "high_impact_flags", "cohort_summary",
     "owner_summary", "owner_horizon", "owner_capacity", "owner_queue", "touchpoint_forecast",
     "channel_batches", "escalation_candidates", "records"}

\* seed_db.py, lines 52-66: the keys of the payload of the seed script
SeedPayload ==
    {"generated_at", "today", "summary", "channel_mix", "high_impact_flags", "cohort_summary",
     "owner_summary", "owner_horizon", "owner_queue", "touchpoint_forecast", "channel_batches",
     "escalation_candidates", "records"}

\* the message of the KeyError a subscript of the payload raises
KeyErrorExit(key) == "KeyError: '" \o key \o "'"

\* no program has been started
NoRun ==
    [db_write |-> FALSE, dsn |-> FALSE, exit |-> "", json_path |-> FALSE, json_written |-> FALSE,
     payload |-> {}, printed |-> FALSE, program |-> "none", schema |-> "",
     schema_created |-> FALSE, stage |-> "idle", stored |-> FALSE, today |-> ""]

\* a command line and its environment: the --today text ("" when the option is absent), the
\* schema name, --db-write, whether --json names a file, whether the database variables are set
CommandLine(program, today, schema, db_write, json_path, dsn) ==
    [db_write |-> db_write, dsn |-> dsn, exit |-> "", json_path |-> json_path,
     json_written |-> FALSE, payload |-> {}, printed |-> FALSE, program |-> program,
     schema |-> schema, schema_created |-> FALSE, stage |-> "today", stored |-> FALSE,
     today |-> today]

\* the seed script always writes to the database and has no --json option
CommandLines ==
    {CommandLine("main", "", DEFAULT_DB_SCHEMA, FALSE, FALSE, FALSE),
     CommandLine("main", "2024-06-01", DEFAULT_DB_SCHEMA, TRUE, TRUE, TRUE),
     CommandLine("main", "06/01/2024", DEFAULT_DB_SCHEMA, TRUE, FALSE, FALSE),
     CommandLine("main", "2024-13-01", DEFAULT_DB_SCHEMA, FALSE, TRUE, FALSE),
     CommandLine("main", "  ", DEFAULT_DB_SCHEMA, TRUE, TRUE, TRUE),
     CommandLine("main", "", "bad-name", TRUE, TRUE, TRUE),
     CommandLine("main", " 2024/6/1 ", "9lives", TRUE, FALSE, TRUE),
     CommandLine("main", "", "bad-name", FALSE, TRUE, FALSE),
     CommandLine("seed_db", "", DEFAULT_DB_SCHEMA, TRUE, FALSE, TRUE),
     CommandLine("seed_db", "2024/06/01", "planner_2", TRUE, FALSE, FALSE),
     CommandLine("seed_db", "June 1", DEFAULT_DB_SCHEMA, TRUE, FALSE, TRUE),
     CommandLine("seed_db", "2024-06-01", "bad-name", TRUE, FALSE, TRUE),
     CommandLine("seed_db", "2023-02-29", "", TRUE, FALSE, TRUE)}

---------------------------------------------------------------------------
(* The state machine *)

Init ==
    /\ pc = "start"
    /\ args = <<>>
    /\ records = <<>>
    /\ scored = <<>>
    /\ call = [op |-> "none"]
    /\ run = NoRun

\* main, lines 1445-1451: the options are parsed and today is set
ParseArgs(c) ==
    /\ pc = "start"
    /\ args' = c
    /\ pc' = "load"
    /\ UNCHANGED <<records, scored, call, run>>

\* load_csv, one row: the record is appended to the list
LoadRow(t) ==
    /\ pc = "load"
    /\ Len(records) < MaxRecords
    /\ records' = Append(records, ScholarRecord(t, "s-" \o ToString(Len(records) + 1)))
    /\ UNCHANGED <<pc, args, scored, call, run>>

\* main, lines 1453-1462: the rows are read, the report is built
BuildReport ==
    /\ pc = "load"
    /\ scored' = build_report(records, args.today, args.high_risk, args.medium_risk,
                              args.soon_days, args.stale_days, args.stale_boost)
    /\ pc' = "ready"
    /\ UNCHANGED <<args, records, call, run>>

\* cadence_for_risk called on its own
CallCadenceForRisk(score, c) ==
    /\ pc = "start"
    /\ call' = [high |-> c.high_risk, medium |-> c.medium_risk, op |-> "cadence_for_risk",
                result |-> cadence_for_risk(score, c.high_risk, c.medium_risk),
                score |-> score]
    /\ pc' = "unit"
    /\ UNCHANGED <<args, records, scored, run>>

\* compute_priority called on its own, as the tests do
CallComputePriority(record, c) ==
    /\ pc = "start"
    /\ call' = [cfg |-> c, op |-> "compute_priority",
                record |-> ScholarRecord(record, record.scholar_id),
                result |-> compute_priority(record, c.today, c.high_risk, c.medium_risk,
                                            c.soon_days, c.stale_days, c.stale_boost)]
    /\ pc' = "unit"
    /\ UNCHANGED <<args, records, scored, run>>

CallEscalationList(limit, min_score) ==
    /\ pc = "ready"
    /\ call.op = "none"
    /\ call' = [limit |-> limit, min_score |-> min_score, op |-> "build_escalation_list",
                result |-> build_escalation_list(scored, limit, min_score)]
    /\ UNCHANGED <<pc, args, records, scored, run>>

CallOwnerCapacity(window_days, daily_capacity, include_overdue) ==
    /\ pc = "ready"
    /\ call.op = "none"
    /\ call' = [daily_capacity |-> daily_capacity, include_overdue |-> include_overdue,
                op |-> "summarize_owner_capacity", result |-> summarize_owner_capacity(scored, window_days, daily_capacity, include_overdue),
                window_days |-> window_days]
    /\ UNCHANGED <<pc, args, records, scored, run>>

CallTouchpointForecast(window_days, include_overdue) ==
    /\ pc = "ready"
    /\ call.op = "none"
    /\ call' = [include_overdue |-> include_overdue, op |-> "summarize_touchpoint_forecast",
                result |-> summarize_touchpoint_forecast(scored, args.today, window_days, include_overdue),
                window_days |-> window_days]
    /\ UNCHANGED <<pc, args, records, scored, run>>

CallTouchpointHorizon ==
    /\ pc = "ready"
    /\ call.op = "none"
    /\ call' = [op |-> "summarize_touchpoint_horizon", result |-> summarize_touchpoint_horizon(scored)]
    /\ UNCHANGED <<pc, args, records, scored, run>>

\* summarize_owner_horizon(scored); steps[k + 1] is the dictionary after k records of the loop
CallOwnerHorizon ==
    /\ pc = "ready"
    /\ call.op = "none"
    /\ call' = [op |-> "summarize_owner_horizon",
                result |-> summarize_owner_horizon(scored),
                steps |-> [k \in 1..(Len(scored) + 1) |->
                              OwnerHorizonFold(<<>>, SubSeq(scored, 1, k - 1))]]
    /\ UNCHANGED <<pc, args, records, scored, run>>

CallStatusByRisk ==
    /\ pc = "ready"
    /\ call.op = "none"
    /\ call' = [op |-> "summarize_status_by_risk", result |-> summarize_status_by_risk(scored)]
    /\ UNCHANGED <<pc, args, records, scored, run>>

CallCohorts ==
    /\ pc = "ready"
    /\ call.op = "none"
    /\ call' = [op |-> "summarize_cohorts", result |-> summarize_cohorts(scored)]
    /\ UNCHANGED <<pc, args, records, scored, run>>

CallOwners ==
    /\ pc = "ready"
    /\ call.op = "none"
    /\ call' = [op |-> "summarize_owners", result |-> summarize_owners(scored)]
    /\ UNCHANGED <<pc, args, records, scored, run>>

\* build_owner_queue(scored, limit, size); steps[k + 1] is the dictionary after k records of the loop
CallOwnerQueue(limit, size) ==
    /\ pc = "ready"
    /\ call.op = "none"
    /\ call' = [limit |-> limit, op |-> "build_owner_queue",
                result |-> build_owner_queue(scored, limit, size),
                size |-> size,
                steps |-> [k \in 1..(Len(scored) + 1) |->
                              OwnerQueueFold(<<>>, SubSeq(scored, 1, k - 1), size)]]
    /\ UNCHANGED <<pc, args, records, scored, run>>

\* build_channel_batches(scored, limit, size); steps as for the owner queue
CallChannelBatches(limit, size) ==
    /\ pc = "ready"
    /\ call.op = "none"
    /\ call' = [limit |-> limit, op |-> "build_channel_batches",
                result |-> build_channel_batches(scored, limit, size),
                size |-> size,
                steps |-> [k \in 1..(Len(scored) + 1) |->
                              ChannelBatchFold(<<>>, SubSeq(scored, 1, k - 1), size)]]
    /\ UNCHANGED <<pc, args, records, scored, run>>

\* main, lines 1467 and 1475-1480: build_owner_alerts over the owner summary
CallOwnerAlerts(th) ==
    /\ pc = "ready"
    /\ call.op = "none"
    /\ call' = [no_touch_threshold |-> th[2], op |-> "build_owner_alerts",
                overdue_threshold |-> th[1], owners |-> summarize_owners(scored),
                result |-> build_owner_alerts(summarize_owners(scored), th[1], th[2], th[3]),
                total_threshold |-> th[3]]
    /\ UNCHANGED <<pc, args, records, scored, run>>

\* summarize_overdue_aging and summarize over two records scored by compute_priority with
\* configuration c: risk scores r1 and r2, last contacts t1 and t2 days before today
CallOverdueAging(c, r1, t1, r2, t2) ==
    /\ pc = "start"
    /\ LET raw(id, r, t) ==
               ScholarRecord([channel_preference |-> "email", cohort |-> "Test", flags |-> <<>>,
                              last_touch |-> IF IsNone(t) THEN None ELSE Some(c.today - Val(t)),
                              name |-> "Test Scholar", owner |-> "Owner", risk_score |-> r], id)
           score(rec) == compute_priority(rec, c.today, c.high_risk, c.medium_risk, c.soon_days,
                                          c.stale_days, c.stale_boost)
           collection == <<score(raw("s-1", r1, t1)), score(raw("s-2", r2, t2))>>
       IN  call' = [collection |-> collection, op |-> "summarize_overdue_aging",
                    result |-> summarize_overdue_aging(collection),
                    summary |-> summarize(collection)]
    /\ pc' = "unit"
    /\ UNCHANGED <<args, records, scored, run>>

\* the aggregators of main, lines 1463-1474 and 1484-1489, over the report and over the
\* same scored records in another ordering
CallAggregators(order, include_overdue) ==
    /\ pc = "ready"
    /\ call.op = "none"
    /\ call' = [first |-> Aggregates(scored, args.today, MaxWindow, MaxCapacity, include_overdue),
                op |-> "aggregators",
                order |-> order,
                second |-> Aggregates(Reordered(scored, order), args.today, MaxWindow, MaxCapacity,
                                      include_overdue)]
    /\ UNCHANGED <<pc, args, records, scored, run>>

\* tests/test_cadence_adherence.py: planner.summarize_cadence_adherence(records)
CallCadenceAdherence ==
    /\ pc = "ready"
    /\ call.op = "none"
    /\ call' = [op |-> "summarize_cadence_adherence",
                raised |-> IF "summarize_cadence_adherence" \in PlannerNames
                           THEN "" ELSE "AttributeError"]
    /\ UNCHANGED <<pc, args, records, scored, run>>

Next ==
    \/ \E c \in RunConfigs : ParseArgs(c)
    \/ \E t \in Roster : LoadRow(t)
    \/ BuildReport
    \/ \E score \in UnitRisks, c \in UnitConfigs : CallCadenceForRisk(score, c)
    \/ \E c \in UnitConfigs, risk \in UnitRisks, lt \in UnitLastTouch, fl \in UnitFlags :
          CallComputePriority(ScholarRecord([channel_preference |-> "email", cohort |-> "Test",
                                             flags |-> fl, last_touch |-> lt,
                                             name |-> "Test Scholar", owner |-> "Owner", risk_score |-> risk],
                                            "s-1"), c)
    \/ \E limit \in 0..MaxLimit, min_score \in MinScores : CallEscalationList(limit, min_score)
    \/ \E w \in -1..MaxWindow, cap \in -1..MaxCapacity, inc \in BOOLEAN : CallOwnerCapacity(w, cap, inc)
    \/ \E w \in -1..MaxWindow, inc \in BOOLEAN : CallTouchpointForecast(w, inc)
    \/ CallCadenceAdherence
    \/ CallTouchpointHorizon
    \/ CallOwnerHorizon
    \/ CallStatusByRisk
    \/ CallCohorts
    \/ CallOwners
    \/ \E limit \in 0..MaxLimit, size \in 0..MaxSize : CallOwnerQueue(limit, size)
    \/ \E limit \in 0..MaxLimit, size \in 0..MaxSize : CallChannelBatches(limit, size)
    \/ \E th \in AlertThresholds : CallOwnerAlerts(th)
    \/ \E order \in Orderings(Len(scored)), inc \in BOOLEAN : CallAggregators(order, inc)
    \/ \E r1 \in AgingRisks, t1 \in AgingTouches, t2 \in AgingTouches :
          CallOverdueAging(CHOOSE c \in RunConfigs : c.stale_days = 60, r1, t1, Milli(92), t2)

Spec == Init /\ [][Next]_vars

---------------------------------------------------------------------------
(* The runs of the command-line programs: main of intervention_planner.py  *)
(* and main of scripts/seed_db.py, step by step                            *)

\* parse_args of either program
StartProgram(cmd) ==
    /\ pc = "start"
    /\ run.program = "none"
    /\ run' = cmd
    /\ UNCHANGED <<pc, args, records, scored, call>>

\* intervention_planner.py lines 1446-1451, seed_db.py lines 24-29: today is the clock's
\* date, or the parsed --today, or the run ends; the thresholds of main are the defaults
\* of its options, those of the seed script are the constants of its line 34
CheckToday ==
    /\ run.stage = "today"
    /\ LET parsed == IF run.today # "" THEN parse_date(run.today) ELSE Some(1000)
       IN  IF IsNone(parsed)
           THEN /\ run' = [run EXCEPT !.exit = InvalidTodayExit, !.stage = "exited"]
                /\ UNCHANGED <<pc, args>>
           ELSE /\ args' = [high_risk |-> Milli(70), medium_risk |-> Milli(40), soon_days |-> 14,
                            stale_boost |-> Milli(15), stale_days |-> 60, today |-> Val(parsed)]
                /\ IF run.program = "seed_db"
                   THEN /\ run' = [run EXCEPT !.stage = "schema"]
                        /\ UNCHANGED pc
                   ELSE /\ run' = [run EXCEPT !.stage = "core"]
                        /\ pc' = "load"
    /\ UNCHANGED <<records, scored, call>>

\* seed_db.py line 31: the schema name is validated before the rows are read
SeedValidateSchema ==
    /\ run.stage = "schema"
    /\ IF SchemaNameMatches(run.schema)
       THEN /\ run' = [run EXCEPT !.stage = "core"]
            /\ pc' = "load"
       ELSE /\ run' = [run EXCEPT !.exit = InvalidSchemaExit, !.stage = "exited"]
            /\ UNCHANGED pc
    /\ UNCHANGED <<args, records, scored, call>>

\* intervention_planner.py lines 1493-1528: the sections of the report are printed and the
\* payload is built
MainPrint ==
    /\ run.program = "main"
    /\ run.stage = "core"
    /\ pc = "ready"
    /\ run' = [run EXCEPT !.payload = MainPayload, !.printed = TRUE, !.stage = "json"]
    /\ UNCHANGED <<pc, args, records, scored, call>>

\* lines 1530-1533: the JSON file is written when --json names one
MainWriteJson ==
    /\ run.stage = "json"
    /\ run' = [run EXCEPT !.json_written = run.json_path, !.stage = "db"]
    /\ UNCHANGED <<pc, args, records, scored, call>>

\* the reads of the payload that find no key, as positions of PayloadReads
MissingReads(payload) == {k \in 1..Len(PayloadReads) : PayloadReads[k] \notin payload}

\* write_run_to_db, lines 1313-1441, on the run r: connected tells whether the driver is
\* installed and the database answers. ensure_db creates the schema and the tables and
\* commits (line 1310); then the payload is read key by key to build the row of the run, and
\* a key that is missing raises KeyError before the row is inserted
write_run_to_db(r, connected) ==
    IF ~connected THEN [r EXCEPT !.exit = "database error", !.stage = "exited"]
    ELSE IF MissingReads(r.payload) # {}
    THEN LET first == CHOOSE k \in MissingReads(r.payload) :
                          \A other \in MissingReads(r.payload) : k <= other
         IN  [r EXCEPT !.exit = KeyErrorExit(PayloadReads[first]), !.schema_created = TRUE,
                       !.stage = "exited"]
    ELSE [r EXCEPT !.schema_created = TRUE, !.stored = TRUE, !.stage = "exited"]

\* lines 1535-1542: with --db-write, the connection string is resolved, the schema name is
\* validated and the run is stored
MainDbWrite(connected) ==
    /\ run.stage = "db"
    /\ run' = IF ~run.db_write THEN [run EXCEPT !.stage = "exited"]
              ELSE IF ~run.dsn THEN [run EXCEPT !.exit = MissingDsnExit, !.stage = "exited"]
              ELSE IF ~SchemaNameMatches(run.schema)
                   THEN [run EXCEPT !.exit = InvalidSchemaExit, !.stage = "exited"]
              ELSE write_run_to_db(run, connected)
    /\ UNCHANGED <<pc, args, records, scored, call>>

\* seed_db.py lines 52-91: the payload is built, the connection string is resolved, the run
\* is stored and the one line of output is printed
SeedDbWrite(connected) ==
    /\ run.program = "seed_db"
    /\ run.stage = "core"
    /\ pc = "ready"
    /\ run' = LET built == [run EXCEPT !.payload = SeedPayload]
                  written == write_run_to_db(built, connected)
              IN  IF ~run.dsn THEN [built EXCEPT !.exit = MissingDsnExit, !.stage = "exited"]
                  ELSE [written EXCEPT !.printed = written.stored]
    /\ UNCHANGED <<pc, args, records, scored, call>>

CliNext ==
    \/ \E cmd \in CommandLines : StartProgram(cmd)
    \/ CheckToday
    \/ SeedValidateSchema
    \/ \E t \in Roster : LoadRow(t)
    \/ BuildReport
    \/ MainPrint
    \/ MainWriteJson
    \/ \E connected \in BOOLEAN : MainDbWrite(connected)
    \/ \E connected \in BOOLEAN : SeedDbWrite(connected)

CliSpec == Init /\ [][CliNext]_vars

---------------------------------------------------------------------------
(* The report section of main: the aggregators over one scored collection, *)
(* run in any order                                                        *)

\* the row of the roster with a name
RosterRow(name) == CHOOSE t \in Roster : t.name = name

\* intake files, as the names of their rows in order
IntakeFiles ==
    {<<"Dana", "Aaron", "Dana">>, <<"Carmen", "Eli", "Blake", "Dana">>}

\* the aggregator calls of main, lines 1463-1489
AggregatorNames ==
    {"summarize", "summarize_cohorts", "summarize_owners", "summarize_owner_horizon",
     "summarize_owner_capacity", "build_owner_alerts", "build_owner_queue",
     "build_channel_batches", "build_escalation_list", "summarize_touchpoint_forecast",
     "summarize_touchpoint_horizon", "summarize_status_by_risk"}

\* the value main gets from an aggregator, with the defaults of the options it passes on
\* (lines 1122-1157): escalation 5 / 90, forecast 21 days, capacity 7 days x 3, alert
\* thresholds 2 / 1 / 8, owner queue 5 x 3, channel batches 4 x 3
ResultOf(name, scoredList, today) ==
    CASE name = "summarize" -> summarize(scoredList)
      [] name = "summarize_cohorts" -> summarize_cohorts(scoredList)
      [] name = "summarize_owners" -> summarize_owners(scoredList)
      [] name = "summarize_owner_horizon" -> summarize_owner_horizon(scoredList)
      [] name = "summarize_owner_capacity" -> summarize_owner_capacity(scoredList, 7, 3, TRUE)
      [] name = "build_owner_alerts" -> build_owner_alerts(summarize_owners(scoredList), 2, 1, 8)
      [] name = "build_owner_queue" -> build_owner_queue(scoredList, 5, 3)
      [] name = "build_channel_batches" -> build_channel_batches(scoredList, 4, 3)
      [] name = "build_escalation_list" -> build_escalation_list(scoredList, 5, Milli(90))
      [] name = "summarize_touchpoint_forecast" ->
             summarize_touchpoint_forecast(scoredList, today, 21, FALSE)
      [] name = "summarize_touchpoint_horizon" -> summarize_touchpoint_horizon(scoredList)
      [] name = "summarize_status_by_risk" -> summarize_status_by_risk(scoredList)

\* load_csv, lines 87-108: the rows of the file become the list of records
LoadFile(file) ==
    /\ pc = "load"
    /\ records = <<>>
    /\ records' = [i \in 1..Len(file) |-> ScholarRecord(RosterRow(file[i]), "s-" \o ToString(i))]
    /\ UNCHANGED <<pc, args, scored, call, run>>

\* the names of the aggregators that have returned
Returned == IF call.op = "pipeline" THEN DOMAIN call.results ELSE {}

\* faulty variant: the owner queue takes its records out of the scored list
RunAggregator_Consumes(name) ==
    /\ pc = "ready"
    /\ name \notin Returned
    /\ call' = [op |-> "pipeline",
                results |-> [n \in Returned \cup {name} |->
                                IF n = name THEN ResultOf(name, scored, args.today)
                                ELSE call.results[n]]]
    /\ scored' = IF name = "build_owner_queue" /\ scored # <<>> THEN Tail(scored) ELSE scored
    /\ UNCHANGED <<pc, args, records, run>>

\* one aggregator call of main, lines 1463-1489: the aggregator reads the scored list and
\* returns a new value; no statement of it assigns to, sorts, appends to or removes from
\* the list it is given or a record of it
RunAggregator(name) ==
    /\ pc = "ready"
    /\ name \notin Returned
    /\ call' = [op |-> "pipeline",
                results |-> [n \in Returned \cup {name} |->
                                IF n = name THEN ResultOf(name, scored, args.today)
                                ELSE call.results[n]]]
    /\ scored' = scored
    /\ UNCHANGED <<pc, args, records, run>>

PipelineNext ==
    \/ \E c \in RunConfigs : ParseArgs(c)
    \/ \E file \in IntakeFiles : LoadFile(file)
    \/ BuildReport
    \/ \E name \in AggregatorNames : RunAggregator(name)

PipelineSpec == Init /\ [][PipelineNext]_vars

---------------------------------------------------------------------------
(* Properties of the scorer *)

\* the raw record a scored record of the report was computed from
RawOf(sr) == records[CHOOSE i \in 1..Len(records) : records[i].scholar_id = sr.scholar_id]

\* every scoring made so far: the direct call of compute_priority, and each record of the report
Scorings ==
    (IF call.op = "compute_priority"
     THEN {[cfg |-> call.cfg, out |-> call.result, raw |-> call.record]}
     ELSE {})
    \cup
    (IF pc = "ready"
     THEN {[cfg |-> args, out |-> scored[i], raw |-> RawOf(scored[i])] : i \in 1..Len(scored)}
     ELSE {})

\* (last_touch + cadence_days) - today of a scoring whose record has a last-contact date
DueIn(s) == (Val(s.raw.last_touch) + s.out.cadence_days) - s.cfg.today

\* C1: compute_priority assigns one status, the first that matches in the order
\* no-touch (no last-contact date), overdue (due_in_days < 0), due-soon
\* (0 <= due_in_days <= soon_days), on-track; with a last-contact date the status is one
\* of overdue, due-soon, on-track and due_in_days = (last_touch + cadence_days) - today.
C1_StatusFirstMatch ==
    \A s \in Scorings :
        /\ s.out.status \in {"no-touch", "overdue", "due-soon", "on-track"}
        /\ IsNone(s.raw.last_touch) => s.out.status = "no-touch"
        /\ ~IsNone(s.raw.last_touch) =>
              /\ s.out.due_in_days = Some(DueIn(s))
              /\ s.out.status \in {"overdue", "due-soon", "on-track"}
              /\ s.out.status = (IF Val(s.out.due_in_days) < 0 THEN "overdue"
                                 ELSE IF Val(s.out.due_in_days) <= s.cfg.soon_days THEN "due-soon"
                                 ELSE "on-track")

\* a record due on the last day of the soon window is due-soon
C1_Witness ==
    /\ call.op = "compute_priority"
    /\ ~IsNone(call.record.last_touch)
    /\ call.cfg.soon_days > 0
    /\ call.result.due_in_days = Some(call.cfg.soon_days)
    /\ call.result.status = "due-soon"

\* the absent day fields of a record without a last-contact date
NoTouchFieldsAbsent(s) ==
    /\ s.out.status = "no-touch"
    /\ IsNone(s.out.due_date)
    /\ IsNone(s.out.due_in_days)
    /\ IsNone(s.out.overdue_days)
    /\ IsNone(s.out.days_since_touch)

\* C2 as stated: without a last-contact date the status is no-touch, the rounded
\* priority_score is at least risk_score + 25, and the day fields are absent.
C2_Original ==
    \A s \in Scorings :
        IsNone(s.raw.last_touch) =>
            /\ NoTouchFieldsAbsent(s)
            /\ s.out.priority_score >= s.raw.risk_score + Milli(25)

\* C2 amended: without a last-contact date the status is no-touch, the day fields are
\* absent, and priority_score is at least round(risk_score + 25, 2): never more than
\* 0.005 below risk_score + 25, and at least risk_score + 25 when the risk score has
\* no more than two decimals.
C2_NoTouchFloor ==
    \A s \in Scorings :
        IsNone(s.raw.last_touch) =>
            /\ NoTouchFieldsAbsent(s)
            /\ s.out.priority_score >= Round2(s.raw.risk_score + Milli(25))
            /\ s.out.priority_score >= s.raw.risk_score + Milli(25) - 5
            /\ (s.raw.risk_score % 10 = 0 => s.out.priority_score >= s.raw.risk_score + Milli(25))

\* a record never touched whose rounded score is below risk_score + 25
C2_Witness ==
    /\ call.op = "compute_priority"
    /\ IsNone(call.record.last_touch)
    /\ call.result.status = "no-touch"
    /\ call.result.priority_score < call.record.risk_score + Milli(25)

FlagHits(flags) == Cardinality({i \in 1..Len(flags) : flags[i] \in HIGH_IMPACT_FLAGS})

\* whether the stale boost applies to a scoring
StaleApplies(s) ==
    ~IsNone(s.raw.last_touch) /\ s.cfg.today - Val(s.raw.last_touch) >= s.cfg.stale_days

\* the overdue and due-soon contributions of a scoring
OverdueApplies(s) == ~IsNone(s.raw.last_touch) /\ DueIn(s) < 0

DueSoonApplies(s) ==
    ~IsNone(s.raw.last_touch) /\ 0 <= DueIn(s) /\ DueIn(s) <= s.cfg.soon_days

\* C4: priority_score = round(risk_score + 25 without a last-contact date + stale_boost
\* with a last-contact date at least stale_days old + (30 if overdue, else 12 if due-soon)
\* + 8 for each entry of flags that is a high-impact flag, 2); overdue and due-soon never
\* both apply, and the tier adds nothing.
C4_PriorityFormula ==
    \A s \in Scorings :
        /\ ~(OverdueApplies(s) /\ DueSoonApplies(s))
        /\ s.out.priority_score =
              Round2(s.raw.risk_score
                     + (IF IsNone(s.raw.last_touch) THEN Milli(25) ELSE 0)
                     + (IF StaleApplies(s) THEN s.cfg.stale_boost ELSE 0)
                     + (IF OverdueApplies(s) THEN Milli(30)
                        ELSE IF DueSoonApplies(s) THEN Milli(12) ELSE 0)
                     + Milli(8) * FlagHits(s.raw.flags))

\* a high-tier record, stale and overdue, with a repeated high-impact flag: 92 + 15 + 30 + 16
C4_Witness ==
    /\ call.op = "compute_priority"
    /\ call.record.risk_score = Milli(92)
    /\ call.record.flags = <<"housing", "sports", "housing">>
    /\ call.result.cadence_days = 7
    /\ call.result.stale_touch
    /\ call.result.status = "overdue"
    /\ call.result.priority_score = Milli(153)

\* the reasons of a scoring, step by step
TierReason(s) ==
    IF s.out.cadence_days = 7 THEN <<"high risk tier">>
    ELSE IF s.out.cadence_days = 21 THEN <<"medium risk tier">>
    ELSE <<>>

NoTouchReason(s) == IF IsNone(s.raw.last_touch) THEN <<"no previous touch">> ELSE <<>>

StaleReason(s) ==
    IF StaleApplies(s)
    THEN <<"stale last touch (" \o ToString(s.cfg.today - Val(s.raw.last_touch)) \o " days)">>
    ELSE <<>>

DueReason(s) ==
    IF OverdueApplies(s) THEN <<"overdue by " \o ToString(-DueIn(s)) \o " days">>
    ELSE IF DueSoonApplies(s) THEN <<"due in " \o ToString(DueIn(s)) \o " days">>
    ELSE <<>>

FlagReasons(s) ==
    LET hits == SelectSeq(s.raw.flags, LAMBDA f : f \in HIGH_IMPACT_FLAGS)
    IN  [k \in 1..Len(hits) |-> "flag: " \o hits[k]]

\* the reasons in the fixed order
OrderedReasons(s) ==
    TierReason(s) \o NoTouchReason(s) \o StaleReason(s) \o DueReason(s) \o FlagReasons(s)

\* the number of contributions applied to the priority of a scoring
Contributions(s) ==
    Len(NoTouchReason(s)) + Len(StaleReason(s)) + Len(DueReason(s)) + FlagHits(s.raw.flags)

\* C5 as stated: the reasons are in the fixed order (tier, no previous touch, stale, overdue
\* or due-soon, one per high-impact flag in the flags' order), and the list holds one entry
\* per contribution applied to the priority and no other entry.
C5_Original ==
    \A s \in Scorings :
        /\ s.out.priority_reasons = OrderedReasons(s)
        /\ Len(s.out.priority_reasons) = Contributions(s)

\* C5 amended: the reasons are in the fixed order (tier, no previous touch, stale, overdue
\* or due-soon, one per high-impact flag in the flags' order); the list holds the tier
\* reason of a high or medium tier record, which is no contribution to the priority,
\* then one entry per contribution applied, and no other entry.
C5_ReasonsOrder ==
    \A s \in Scorings :
        /\ s.out.priority_reasons = OrderedReasons(s)
        /\ Len(s.out.priority_reasons) = Len(TierReason(s)) + Contributions(s)

\* a high-tier record whose reasons are the tier, the stale touch, the overdue days and two flags
C5_Witness ==
    /\ call.op = "compute_priority"
    /\ call.result.priority_reasons =
          <<"high risk tier", "stale last touch (75 days)", "overdue by 68 days",
            "flag: crisis", "flag: food">>

---------------------------------------------------------------------------
(* Properties of the report and of the aggregators *)

\* the position in the input list of the raw record a scored record was computed from
InputIndex(sr) == CHOOSE i \in 1..Len(records) : records[i].scholar_id = sr.scholar_id

\* C6: build_report returns one scored record per raw record, none dropped or duplicated,
\* in non-increasing priority_score order, and records of equal priority_score keep the
\* relative order of the input list.
C6_ReportOrder ==
    pc = "ready" =>
        /\ Len(scored) = Len(records)
        /\ \A i \in 1..Len(records) :
              Cardinality({j \in 1..Len(scored) : scored[j].scholar_id = records[i].scholar_id}) = 1
        /\ \A j \in 1..Len(scored) :
              scored[j] = compute_priority(RawOf(scored[j]), args.today, args.high_risk,
                                           args.medium_risk, args.soon_days, args.stale_days,
                                           args.stale_boost)
        /\ \A j, k \in 1..Len(scored) :
              j < k => /\ scored[j].priority_score >= scored[k].priority_score
                       /\ scored[j].priority_score = scored[k].priority_score
                             => InputIndex(scored[j]) < InputIndex(scored[k])

\* a report of three records: two of equal score, and one that the sort moved ahead of its input position
C6_Witness ==
    /\ pc = "ready"
    /\ Len(scored) = MaxRecords
    /\ \E j, k \in 1..Len(scored) :
          j < k /\ scored[j].priority_score = scored[k].priority_score
                /\ scored[j].name # scored[k].name
    /\ \E j, k \in 1..Len(scored) :
          j < k /\ scored[j].priority_score > scored[k].priority_score
                /\ InputIndex(scored[j]) > InputIndex(scored[k])

\* the records an escalation list may hold
Qualifies(r, min_score) ==
    /\ r.cadence_days = 7
    /\ r.status \in {"overdue", "no-touch"}
    /\ r.priority_score >= min_score

\* entry or record a comes strictly before b: higher priority_score, then smaller name
RanksBefore(a, b) ==
    \/ a.priority_score > b.priority_score
    \/ (a.priority_score = b.priority_score /\ StrLess(a.name, b.name))

\* C7: every entry of build_escalation_list comes from a record with cadence_days = 7,
\* status overdue or no-touch and priority_score >= min_score; the list is sorted by
\* descending priority_score, ties by name ascending, and is truncated to limit entries:
\* it is the first limit entries of the sorted list of all such records.
C7_EscalationList ==
    call.op = "build_escalation_list" =>
        LET result == call.result
            pool == {j \in 1..Len(scored) : Qualifies(scored[j], call.min_score)}
        IN  /\ Len(result) = Min(call.limit, Cardinality(pool))
            /\ \E f \in [1..Len(result) -> pool] :
                  /\ \A a, b \in 1..Len(result) : a # b => f[a] # f[b]
                  /\ \A a \in 1..Len(result) :
                        /\ result[a].scholar_id = scored[f[a]].scholar_id
                        /\ result[a].name = scored[f[a]].name
                        /\ result[a].priority_score = scored[f[a]].priority_score
                        /\ result[a].status = scored[f[a]].status
                  /\ \A j \in pool :
                        (\A a \in 1..Len(result) : f[a] # j) =>
                            \A a \in 1..Len(result) : ~RanksBefore(scored[j], result[a])
            /\ \A a, b \in 1..Len(result) : a < b => ~RanksBefore(result[b], result[a])

\* two records of equal score: the list of one entry holds the one whose name is smaller,
\* which is the later one of the report
C7_Witness ==
    /\ call.op = "build_escalation_list"
    /\ call.limit = 1
    /\ Len(call.result) = 1
    /\ \E j, k \in 1..Len(scored) :
          /\ j < k
          /\ Qualifies(scored[j], call.min_score)
          /\ Qualifies(scored[k], call.min_score)
          /\ scored[j].priority_score = scored[k].priority_score
          /\ StrLess(scored[k].name, scored[j].name)
          /\ call.result[1].name = scored[k].name
          /\ \A i \in 1..Len(scored) : scored[i].priority_score <= scored[k].priority_score

\* the adherence figures of the records of scoredList at the positions in idx
AdherenceRow(row, scoredList, idx) ==
    LET compliant == Cardinality({i \in idx : scoredList[i].status \in {"on-track", "due-soon"}})
    IN  /\ row.total = Cardinality(idx)
        /\ row.compliant = compliant
        /\ row.overdue = Cardinality({i \in idx : scoredList[i].status = "overdue"})
        /\ row.no_touch = Cardinality({i \in idx : scoredList[i].status = "no-touch"})
        /\ IF idx = {} THEN row.compliance_rate = 0
           ELSE row.compliance_rate * Cardinality(idx) = Milli(compliant)

\* C8: the planner module provides summarize_cadence_adherence(scored): the call raises
\* nothing and returns, for the tiers high (cadence 7), medium (cadence 21), low (otherwise)
\* and for "overall", total, compliant, overdue, no_touch and compliance_rate =
\* compliant/total (0.0 when total is 0), the overall rate being pooled over all records.
C8_CadenceAdherence ==
    call.op = "summarize_cadence_adherence" =>
        /\ "summarize_cadence_adherence" \in PlannerNames
        /\ call.raised = ""
        /\ LET all == 1..Len(scored)
               high == {i \in all : scored[i].cadence_days = 7}
               medium == {i \in all : scored[i].cadence_days = 21}
           IN  /\ AdherenceRow(call.result.high, scored, high)
               /\ AdherenceRow(call.result.medium, scored, medium)
               /\ AdherenceRow(call.result.low, scored, all \ (high \cup medium))
               /\ AdherenceRow(call.result.overall, scored, all)

\* the records of the report with a due date lo..hi days from today
DueBetween(lo, hi) ==
    {i \in 1..Len(scored) :
        /\ ~IsNone(scored[i].due_in_days)
        /\ lo <= Val(scored[i].due_in_days)
        /\ Val(scored[i].due_in_days) <= hi}

\* the overdue records of the report
DueBefore ==
    {i \in 1..Len(scored) : ~IsNone(scored[i].due_in_days) /\ Val(scored[i].due_in_days) < 0}

\* the records of the report due after more than w days
DueAfter(w) ==
    {i \in 1..Len(scored) : ~IsNone(scored[i].due_in_days) /\ Val(scored[i].due_in_days) > w}

\* the records of the report that belong to owner
OwnedBy(owner) == {i \in 1..Len(scored) : normalize_owner(scored[i].owner) = owner}

\* the figures of the buckets of an owner capacity result for window w and daily capacity c
CapacityHolds(result, w, c, include_overdue) ==
    /\ {result[k].owner : k \in 1..Len(result)} =
          {normalize_owner(scored[i].owner) : i \in 1..Len(scored)}
    /\ \A j, k \in 1..Len(result) : j # k => result[j].owner # result[k].owner
    /\ \A k \in 1..Len(result) :
          LET b == result[k]
              inWindow == OwnedBy(b.owner) \cap DueBetween(0, w)
              late == OwnedBy(b.owner) \cap DueBefore
              due == Cardinality(inWindow) + (IF include_overdue THEN Cardinality(late) ELSE 0)
          IN  /\ b.capacity = c * w
              /\ b.overdue = Cardinality(late)
              /\ b.due_within_window = due
              /\ b.gap = Max(0, due - b.capacity)
              /\ IF b.capacity = 0 THEN b.utilization = 0
                 ELSE LET err == b.utilization * b.capacity - Milli(due)
                      IN  /\ b.utilization % 10 = 0
                          /\ 2 * err <= 10 * b.capacity
                          /\ 2 * err >= -(10 * b.capacity)

\* C9 as stated: for the window W and the daily capacity C passed, every owner bucket has
\* capacity = C*W, due_within_window = the owner's records due in [0, W] plus, when
\* include_overdue is set, the owner's overdue records, gap = max(0, due_within_window -
\* capacity) and utilization = due_within_window / capacity rounded to 2 decimals (0 if
\* capacity is 0); records with no due date add to neither count.
C9_Original ==
    call.op = "summarize_owner_capacity" =>
        CapacityHolds(call.result, call.window_days, call.daily_capacity, call.include_overdue)

\* C9 amended: the same figures for the window max(1, W) and the daily capacity max(0, C).
C9_OwnerCapacity ==
    call.op = "summarize_owner_capacity" =>
        CapacityHolds(call.result, Max(1, call.window_days), Max(0, call.daily_capacity),
                      call.include_overdue)

\* a window of 0 days passed: the bucket has the capacity of one day and is over it
C9_Witness ==
    /\ call.op = "summarize_owner_capacity"
    /\ call.window_days = 0
    /\ call.include_overdue
    /\ \E k \in 1..Len(call.result) :
          /\ call.result[k].capacity = call.daily_capacity
          /\ call.result[k].overdue > 0
          /\ call.result[k].gap > 0
          /\ call.result[k].utilization = Milli(2)

\* the counts of a forecast result for window w
ForecastHolds(result, w, include_overdue) ==
    /\ Len(result.daily) = w + 1
    /\ \A k \in 1..Len(result.daily) :
          /\ result.daily[k].date = isoformat(args.today + (k - 1))
          /\ result.daily[k].count =
                Cardinality(DueBetween(k - 1, k - 1))
                + (IF k = 1 /\ include_overdue THEN Cardinality(DueBefore) ELSE 0)
    /\ result.overdue = Cardinality(DueBefore)
    /\ result.beyond_window = Cardinality(DueAfter(w))
    /\ result.no_due_date = Cardinality({i \in 1..Len(scored) : IsNone(scored[i].due_in_days)})

\* C10 as stated: for the window W passed the forecast has W+1 daily buckets dated today+0
\* to today+W in order; a record due in [0, W] days is counted in the bucket of its day, an
\* overdue record in overdue and, with include_overdue, also in bucket 0, a record due
\* after W days in beyond_window, a record with no due date in no_due_date.
C10_Original ==
    call.op = "summarize_touchpoint_forecast" =>
        ForecastHolds(call.result, call.window_days, call.include_overdue)

\* C10 amended: the same buckets and counts for the window max(1, W).
C10_TouchpointForecast ==
    call.op = "summarize_touchpoint_forecast" =>
        ForecastHolds(call.result, Max(1, call.window_days), call.include_overdue)

\* a window of 0 days passed: two daily buckets, the first holding an overdue record too
C10_Witness ==
    /\ call.op = "summarize_touchpoint_forecast"
    /\ call.window_days = 0
    /\ call.include_overdue
    /\ Len(call.result.daily) = 2
    /\ call.result.overdue > 0
    /\ call.result.daily[1].count > call.result.overdue
    /\ call.result.beyond_window > 0

\* the positions of the report whose record has no due date
NoDueDate == {i \in 1..Len(scored) : IsNone(scored[i].due_in_days)}

\* the sum of the six counts of a horizon bucket
HorizonSum(b) ==
    b.overdue + b.next_7_days + b.next_14_days + b.next_30_days + b.later + b.no_due_date

\* C11: summarize_touchpoint_horizon counts every record in exactly one bucket by its
\* due_in_days: absent -> no_due_date, < 0 -> overdue, 0..7 -> next_7_days, 8..14 ->
\* next_14_days, 15..30 -> next_30_days, > 30 -> later; the six counts sum to the number
\* of records.
C11_TouchpointHorizon ==
    call.op = "summarize_touchpoint_horizon" =>
        /\ call.result.no_due_date = Cardinality(NoDueDate)
        /\ call.result.overdue = Cardinality(DueBefore)
        /\ call.result.next_7_days = Cardinality(DueBetween(0, 7))
        /\ call.result.next_14_days = Cardinality(DueBetween(8, 14))
        /\ call.result.next_30_days = Cardinality(DueBetween(15, 30))
        /\ call.result.later = Cardinality(DueAfter(30))
        /\ HorizonSum(call.result) = Len(scored)

\* a report of three records, one due in exactly 14 days, one later than 30 days, one never touched
C11_Witness ==
    /\ call.op = "summarize_touchpoint_horizon"
    /\ \E i \in 1..Len(scored) : scored[i].due_in_days = Some(14)
    /\ call.result.next_14_days = 1
    /\ call.result.later = 1
    /\ call.result.no_due_date = 1

\* the positions among the first k of the report whose record belongs to owner
OwnedIn(owner, k) == {i \in 1..k : normalize_owner(scored[i].owner) = owner}

\* the sum of the totals of a list of buckets
RECURSIVE SumTotals(_)
SumTotals(buckets) ==
    IF buckets = <<>> THEN 0 ELSE Head(buckets).total + SumTotals(Tail(buckets))

\* the owner horizon buckets partition the first k records of the report
OwnerHorizonPartition(buckets, k) ==
    /\ \A a, b \in 1..Len(buckets) : a # b => buckets[a].owner # buckets[b].owner
    /\ {buckets[a].owner : a \in 1..Len(buckets)} = {normalize_owner(scored[i].owner) : i \in 1..k}
    /\ \A i \in 1..k :
          strip(scored[i].owner) = "" => \E a \in 1..Len(buckets) : buckets[a].owner = "Unassigned"
    /\ \A a \in 1..Len(buckets) :
          LET b == buckets[a]
              mine == OwnedIn(b.owner, k)
          IN  /\ HorizonSum(b) = b.total
              /\ b.total = Cardinality(mine)
              /\ b.no_due_date = Cardinality(mine \cap NoDueDate)
              /\ b.overdue = Cardinality(mine \cap DueBefore)
              /\ b.next_7_days = Cardinality(mine \cap DueBetween(0, 7))
              /\ b.next_14_days = Cardinality(mine \cap DueBetween(8, 14))
              /\ b.next_30_days = Cardinality(mine \cap DueBetween(15, 30))
              /\ b.later = Cardinality(mine \cap DueAfter(30))
    /\ SumTotals(buckets) = k

\* C12: in summarize_owner_horizon, after every prefix of the fold and in the final result,
\* each owner's six bucket counts sum to the owner's total, every record is counted in
\* exactly one bucket of exactly one owner (a blank owner under "Unassigned"), and the
\* owners' totals sum to the number of records.
C12_OwnerHorizon ==
    call.op = "summarize_owner_horizon" =>
        /\ \A k \in 0..Len(scored) : OwnerHorizonPartition(call.steps[k + 1], k)
        /\ OwnerHorizonPartition(call.result, Len(scored))

\* a report with a blank owner and an owner written with blanks around the name
C12_Witness ==
    /\ call.op = "summarize_owner_horizon"
    /\ Len(scored) = MaxRecords
    /\ \E i \in 1..Len(scored) : scored[i].owner = ""
    /\ \E i, j \in 1..Len(scored) : scored[i].owner = " Dee " /\ scored[j].owner = "Dee"
    /\ \E a \in 1..Len(call.result) : call.result[a].owner = "Dee" /\ call.result[a].total = 2
    /\ \E a \in 1..Len(call.result) : call.result[a].owner = "Unassigned"

\* the positions of the report whose record has the cadence of a tier, and the status
InCell(tier, status) ==
    {i \in 1..Len(scored) :
        /\ scored[i].status = status
        /\ CASE tier = "high" -> scored[i].cadence_days = 7
             [] tier = "medium" -> scored[i].cadence_days = 21
             [] OTHER -> scored[i].cadence_days \notin {7, 21}}

\* the sum of the four counts of a row of the matrix
RowSum(row) == row.overdue + row.due_soon + row.on_track + row.no_touch

\* C13: the cell counts of the matrix of summarize_status_by_risk sum to the number of
\* records, and each record is counted in the one cell of its tier (cadence 7 -> high,
\* 21 -> medium, otherwise low) and its status.
C13_StatusByRisk ==
    call.op = "summarize_status_by_risk" =>
        /\ \A tier \in {"high", "medium", "low"} :
              /\ call.result[tier].overdue = Cardinality(InCell(tier, "overdue"))
              /\ call.result[tier].due_soon = Cardinality(InCell(tier, "due-soon"))
              /\ call.result[tier].on_track = Cardinality(InCell(tier, "on-track"))
              /\ call.result[tier].no_touch = Cardinality(InCell(tier, "no-touch"))
        /\ RowSum(call.result.high) + RowSum(call.result.medium) + RowSum(call.result.low)
              = Len(scored)

\* a report with a record in each tier: low and on-track, medium and never touched, high and overdue
C13_Witness ==
    /\ call.op = "summarize_status_by_risk"
    /\ call.result.low.on_track = 1
    /\ call.result.medium.no_touch = 1
    /\ call.result.high.overdue = 1

\* the rollups that keep an avg_priority
RollupOps ==
    {"summarize_cohorts", "summarize_owners", "summarize_owner_horizon", "build_channel_batches"}

\* the key of the bucket a rollup counts a record into
GroupKey(op, record) ==
    IF op = "summarize_cohorts" THEN CohortKey(record.cohort)
    ELSE IF op = "build_channel_batches" THEN normalize_channel(record.channel_preference)
    ELSE normalize_owner(record.owner)

\* the key of a bucket of a rollup
BucketKey(op, bucket) ==
    IF op = "summarize_cohorts" THEN bucket.cohort
    ELSE IF op = "build_channel_batches" THEN bucket.channel
    ELSE bucket.owner

\* the priority scores of the records of a list that a rollup counts under key, in their order
ScoresOf(op, key, scoredList) ==
    LET mine == SelectSeq(scoredList, LAMBDA r : GroupKey(op, r) = key)
    IN  [i \in 1..Len(mine) |-> mine[i].priority_score]

RECURSIVE SumSeq(_)
SumSeq(xs) == IF xs = <<>> THEN 0 ELSE Head(xs) + SumSeq(Tail(xs))

\* a_0 = 0, a_k = round((a_(k-1) * (k - 1) + x_k) / k, 2)
RECURSIVE SteppedAverage(_)
SteppedAverage(xs) ==
    IF xs = <<>> THEN 0
    ELSE LET n == Len(xs)
         IN  Round2Div(SteppedAverage(SubSeq(xs, 1, n - 1)) * (n - 1) + xs[n], n)

Abs(x) == IF x < 0 THEN -x ELSE x

\* C15 as stated: in the cohort, owner, owner-horizon and channel rollups the avg_priority
\* of a bucket equals the exact mean of the priority_score values of its records, as
\* reported at 2 decimals.
C15_Original ==
    call.op \in RollupOps =>
        \A a \in 1..Len(call.result) :
            LET xs == ScoresOf(call.op, BucketKey(call.op, call.result[a]), scored)
            IN  call.result[a].avg_priority = Round2Div(SumSeq(xs), Len(xs))

\* C15 amended: the avg_priority of a bucket is the incremental update rounded to 2
\* decimals at every step, a_k = round((a_(k-1) * (k - 1) + x_k) / k, 2) over the bucket's
\* records in the order of the collection; it equals the exact mean reported at 2 decimals
\* for a bucket of one or two records, and for n records it is within
\* 0.005 * (n * (n + 1) / 2 - 1) / n of the exact mean.
C15_RunningAverage ==
    call.op \in RollupOps =>
        \A a \in 1..Len(call.result) :
            LET xs == ScoresOf(call.op, BucketKey(call.op, call.result[a]), scored)
                n == Len(xs)
                avg == call.result[a].avg_priority
            IN  /\ n = call.result[a].total
                /\ avg = SteppedAverage(xs)
                /\ n <= 2 => avg = Round2Div(SumSeq(xs), n)
                /\ 2 * Abs(n * avg - SumSeq(xs)) <= 5 * (n * (n + 1) - 2)

\* an owner bucket of three records whose avg_priority is not the mean at 2 decimals
C15_Witness ==
    /\ call.op = "summarize_owners"
    /\ \E a \in 1..Len(call.result) :
          LET xs == ScoresOf(call.op, call.result[a].owner, scored)
          IN  /\ Len(xs) = 3
              /\ call.result[a].avg_priority # Round2Div(SumSeq(xs), 3)

\* the positions of the report that a rollup counts under key
Members(op, key) == {i \in 1..Len(scored) : GroupKey(op, scored[i]) = key}

\* the first position of the report counted under key
FirstSeen(op, key) == CHOOSE i \in Members(op, key) : \A j \in Members(op, key) : i <= j

\* bucket a sorts strictly before bucket b: more overdue, then more due_soon, then higher average
SortsBefore(a, b) ==
    \/ a.overdue > b.overdue
    \/ (a.overdue = b.overdue /\ a.due_soon > b.due_soon)
    \/ (a.overdue = b.overdue /\ a.due_soon = b.due_soon /\ a.avg_priority > b.avg_priority)

\* C16: summarize_cohorts and summarize_owners return their buckets sorted by descending
\* overdue, then descending due_soon, then descending avg_priority; buckets equal on the
\* three keys keep the order in which their cohort or owner first occurred in the
\* collection; the total, overdue, due_soon, no_touch and per-tier counts of a bucket
\* equal the number of its records with that status or tier.
C16_RollupOrder ==
    call.op \in {"summarize_cohorts", "summarize_owners"} =>
        LET result == call.result
            key(a) == BucketKey(call.op, result[a])
        IN  /\ \A a, b \in 1..Len(result) : a # b => key(a) # key(b)
            /\ {key(a) : a \in 1..Len(result)} = {GroupKey(call.op, scored[i]) : i \in 1..Len(scored)}
            /\ \A a \in 1..Len(result) :
                  LET mine == Members(call.op, key(a))
                      b == result[a]
                  IN  /\ b.total = Cardinality(mine)
                      /\ b.overdue = Cardinality({i \in mine : scored[i].status = "overdue"})
                      /\ b.due_soon = Cardinality({i \in mine : scored[i].status = "due-soon"})
                      /\ b.no_touch = Cardinality({i \in mine : scored[i].status = "no-touch"})
                      /\ b.high_risk = Cardinality({i \in mine : scored[i].cadence_days = 7})
                      /\ b.medium_risk = Cardinality({i \in mine : scored[i].cadence_days = 21})
                      /\ b.low_risk = Cardinality({i \in mine : scored[i].cadence_days \notin {7, 21}})
            /\ \A a, b \in 1..Len(result) :
                  a < b => /\ ~SortsBefore(result[b], result[a])
                           /\ ~SortsBefore(result[a], result[b])
                                 => FirstSeen(call.op, key(a)) < FirstSeen(call.op, key(b))

\* three owner buckets: the first two are equal on all three keys and stand in the order
\* of first occurrence, the third is sorted after them
C16_Witness ==
    /\ call.op = "summarize_owners"
    /\ Len(call.result) = 3
    /\ ~SortsBefore(call.result[1], call.result[2])
    /\ ~SortsBefore(call.result[2], call.result[1])
    /\ SortsBefore(call.result[2], call.result[3])
    /\ FirstSeen(call.op, call.result[1].owner) < FirstSeen(call.op, call.result[2].owner)

\* the reasons the thresholds of the call give an owner bucket, one for each condition
\* that holds, in the order overdue, no-touch, total
ExpectedReasons(bucket) ==
    LET pick(k) == IF k = 1 THEN bucket.overdue >= call.overdue_threshold
                   ELSE IF k = 2 THEN bucket.no_touch >= call.no_touch_threshold
                   ELSE bucket.total >= call.total_threshold
        text(k) == IF k = 1 THEN "overdue >= " \o ToString(call.overdue_threshold)
                   ELSE IF k = 2 THEN "no-touch >= " \o ToString(call.no_touch_threshold)
                   ELSE "total >= " \o ToString(call.total_threshold)
        held == {k \in 1..3 : pick(k)}
        nth(i) == CHOOSE k \in held : Cardinality({j \in held : j < k}) = i - 1
    IN  [i \in 1..Cardinality(held) |-> text(nth(i))]

\* alert a sorts strictly before alert b
AlertSortsBefore(a, b) ==
    \/ a.overdue > b.overdue
    \/ (a.overdue = b.overdue /\ a.no_touch > b.no_touch)
    \/ (a.overdue = b.overdue /\ a.no_touch = b.no_touch /\ a.total > b.total)
    \/ (a.overdue = b.overdue /\ a.no_touch = b.no_touch /\ a.total = b.total
            /\ a.avg_priority > b.avg_priority)

\* C17: build_owner_alerts returns an alert for an owner bucket if and only if its overdue
\* count reaches overdue_threshold or its no_touch count reaches no_touch_threshold or its
\* total reaches total_threshold; the reasons of an alert have exactly one entry for each
\* condition that holds, in the order overdue, no-touch, total; the alerts are sorted by
\* descending overdue, no_touch, total, avg_priority.
C17_OwnerAlerts ==
    call.op = "build_owner_alerts" =>
        LET result == call.result
            owners == call.owners
        IN  /\ \A i \in 1..Len(owners) :
                  Cardinality({a \in 1..Len(result) : result[a].owner = owners[i].owner})
                      = IF \/ owners[i].overdue >= call.overdue_threshold
                           \/ owners[i].no_touch >= call.no_touch_threshold
                           \/ owners[i].total >= call.total_threshold
                        THEN 1 ELSE 0
            /\ \A a \in 1..Len(result) :
                  \E i \in 1..Len(owners) :
                      /\ owners[i].owner = result[a].owner
                      /\ result[a].overdue = owners[i].overdue
                      /\ result[a].no_touch = owners[i].no_touch
                      /\ result[a].total = owners[i].total
                      /\ result[a].avg_priority = owners[i].avg_priority
                      /\ result[a].reasons = ExpectedReasons(owners[i])
            /\ \A a, b \in 1..Len(result) : a < b => ~AlertSortsBefore(result[b], result[a])

\* of two owners one is flagged, for two reasons, and the other is not
C17_Witness ==
    /\ call.op = "build_owner_alerts"
    /\ Len(call.owners) = 2
    /\ Len(call.result) = 1
    /\ Len(call.result[1].reasons) = 2
    /\ call.result[1].owner = call.owners[2].owner

\* owner queue a sorts strictly before owner queue b: larger total, then owner name
QueueSortsBefore(a, b) ==
    \/ a.total > b.total
    \/ (a.total = b.total /\ StrLess(a.owner, b.owner))

\* channel batch a sorts strictly before channel batch b
BatchSortsBefore(a, b) ==
    \/ a.overdue > b.overdue
    \/ (a.overdue = b.overdue /\ a.due_soon > b.due_soon)
    \/ (a.overdue = b.overdue /\ a.due_soon = b.due_soon /\ a.total > b.total)
    \/ (a.overdue = b.overdue /\ a.due_soon = b.due_soon /\ a.total = b.total
            /\ a.avg_priority > b.avg_priority)

\* the number of the first k records of the report that the call counts under key
SeenFor(key, k) ==
    Cardinality({i \in 1..k : GroupKey(call.op, scored[i]) = key})

\* C18: in build_owner_queue and build_channel_batches, after every prefix of the fold,
\* each bucket holds at most size example items while its total equals the number of
\* records seen for that owner or channel (len(items) = min(size, total)); owner queues are
\* returned sorted by descending total then owner name, channel batches by descending
\* overdue, due_soon, total, avg_priority, and the returned list has at most limit buckets.
C18_QueueCaps ==
    call.op \in {"build_owner_queue", "build_channel_batches"} =>
        LET result == call.result
            final == call.steps[Len(scored) + 1]
        IN  /\ \A k \in 0..Len(scored) :
                  \A a \in 1..Len(call.steps[k + 1]) :
                      LET bucket == call.steps[k + 1][a]
                      IN  /\ bucket.total = SeenFor(BucketKey(call.op, bucket), k)
                          /\ bucket.total >= 1
                          /\ Len(bucket.items) <= call.size
                          /\ Len(bucket.items) = Min(call.size, bucket.total)
            /\ \A k \in 0..Len(scored) :
                  {BucketKey(call.op, call.steps[k + 1][a]) : a \in 1..Len(call.steps[k + 1])}
                      = {GroupKey(call.op, scored[i]) : i \in 1..k}
            /\ Len(result) <= call.limit
            /\ \A a \in 1..Len(result) : \E b \in 1..Len(final) : result[a] = final[b]
            /\ \A a, b \in 1..Len(result) :
                  a < b => IF call.op = "build_owner_queue"
                           THEN QueueSortsBefore(result[a], result[b])
                           ELSE ~BatchSortsBefore(result[b], result[a])

\* an owner queue of two owners: the first holds size = 1 example of its 2 records, and
\* the owners stand in another order than they were first seen
C18_Witness ==
    /\ call.op = "build_owner_queue"
    /\ call.size = 1
    /\ Len(call.result) = 2
    /\ call.result[1].total = 2
    /\ Len(call.result[1].items) = 1
    /\ call.steps[Len(scored) + 1][2].owner = call.result[1].owner

\* the buckets of a list with the average of each set aside
Counts(buckets) == [i \in 1..Len(buckets) |-> [buckets[i] EXCEPT !.avg_priority = 0]]

\* the set of the elements of a list
Elements(seq) == {seq[i] : i \in 1..Len(seq)}

\* the pairs of positions of a list of cohort or owner buckets that differ on a count the
\* list is sorted by, and the same with the average taken into the comparison
RollupApart(buckets) ==
    {p \in Pairs(buckets) :
        buckets[p[1]].overdue # buckets[p[2]].overdue \/ buckets[p[1]].due_soon # buckets[p[2]].due_soon}

RollupUntied(buckets) ==
    RollupApart(buckets) \cup
        {p \in Pairs(buckets) : buckets[p[1]].avg_priority # buckets[p[2]].avg_priority}

HorizonApart(buckets) ==
    {p \in Pairs(buckets) :
        \/ buckets[p[1]].overdue # buckets[p[2]].overdue
        \/ buckets[p[1]].next_7_days # buckets[p[2]].next_7_days
        \/ buckets[p[1]].next_14_days # buckets[p[2]].next_14_days
        \/ buckets[p[1]].total # buckets[p[2]].total}

HorizonUntied(buckets) ==
    HorizonApart(buckets) \cup
        {p \in Pairs(buckets) : buckets[p[1]].avg_priority # buckets[p[2]].avg_priority}

\* the buckets of xs at the pairs of positions in apart stand in the same relative order in ys
KeepsOrder(xs, ys, apart) ==
    \A p \in apart :
        \A a, b \in 1..Len(ys) :
            (Counts(ys)[a] = Counts(xs)[p[1]] /\ Counts(ys)[b] = Counts(xs)[p[2]])
                => (p[1] < p[2] <=> a < b)

\* the lists xs and ys have the same buckets with the same counts
SameCounts(xs, ys) ==
    /\ Len(xs) = Len(ys)
    /\ Elements(Counts(xs)) = Elements(Counts(ys))

\* the averages of the same bucket in xs and ys are equal when the bucket has at most two
\* records, and differ by at most 0.005 * (n * (n + 1) - 2) / n when it has n records
CloseAverages(xs, ys) ==
    \A a \in 1..Len(xs), b \in 1..Len(ys) :
        Counts(xs)[a] = Counts(ys)[b] =>
            LET n == xs[a].total
                diff == Abs(xs[a].avg_priority - ys[b].avg_priority)
            IN  /\ n <= 2 => diff = 0
                /\ n * diff <= 5 * (n * (n + 1) - 2)

\* the aggregators whose buckets carry no average return the same value for both orderings
SameCountAggregates ==
    /\ call.first.summary = call.second.summary
    /\ call.first.horizon = call.second.horizon
    /\ call.first.forecast = call.second.forecast
    /\ call.first.status_by_risk = call.second.status_by_risk
    /\ call.first.owner_capacity = call.second.owner_capacity

\* C19 as stated: for any two orderings of the same scored collection the eight aggregators
\* return the same value for every bucket field, all counts and avg_priority; only the
\* relative position of buckets tied on the sort keys may differ.
C19_Original ==
    call.op = "aggregators" =>
        /\ SameCountAggregates
        /\ Len(call.first.cohorts) = Len(call.second.cohorts)
        /\ Elements(call.first.cohorts) = Elements(call.second.cohorts)
        /\ Len(call.first.owners) = Len(call.second.owners)
        /\ Elements(call.first.owners) = Elements(call.second.owners)
        /\ Len(call.first.owner_horizon) = Len(call.second.owner_horizon)
        /\ Elements(call.first.owner_horizon) = Elements(call.second.owner_horizon)
        /\ KeepsOrder(call.first.cohorts, call.second.cohorts, RollupUntied(call.first.cohorts))
        /\ KeepsOrder(call.first.owners, call.second.owners, RollupUntied(call.first.owners))
        /\ KeepsOrder(call.first.owner_horizon, call.second.owner_horizon,
                      HorizonUntied(call.first.owner_horizon))

\* C19: for any two orderings of the same scored collection, summarize,
\* summarize_touchpoint_horizon, summarize_touchpoint_forecast, summarize_status_by_risk,
\* summarize_cohorts, summarize_owners, summarize_owner_horizon and summarize_owner_capacity
\* return the same value for every count of every bucket; avg_priority, rounded at every
\* step of the fold in the order of the collection, is the same for a bucket of at most two
\* records and differs by at most 0.005 * (n * (n + 1) - 2) / n for a bucket of n records;
\* buckets that differ on a count among the sort keys keep their relative position.
C19_OrderInsensitiveCounts ==
    call.op = "aggregators" =>
        /\ SameCountAggregates
        /\ SameCounts(call.first.cohorts, call.second.cohorts)
        /\ SameCounts(call.first.owners, call.second.owners)
        /\ SameCounts(call.first.owner_horizon, call.second.owner_horizon)
        /\ CloseAverages(call.first.cohorts, call.second.cohorts)
        /\ CloseAverages(call.first.owners, call.second.owners)
        /\ CloseAverages(call.first.owner_horizon, call.second.owner_horizon)
        /\ KeepsOrder(call.first.cohorts, call.second.cohorts, RollupApart(call.first.cohorts))
        /\ KeepsOrder(call.first.owners, call.second.owners, RollupApart(call.first.owners))
        /\ KeepsOrder(call.first.owner_horizon, call.second.owner_horizon,
                      HorizonApart(call.first.owner_horizon))

\* the report of three records of one owner and its reversal: the counts agree and the
\* owner's average does not
C19_Witness ==
    /\ call.op = "aggregators"
    /\ Len(scored) = 3
    /\ call.order = <<3, 2, 1>>
    /\ Len(call.first.owners) = 1
    /\ call.first.owners[1].total = 3
    /\ call.first.summary = call.second.summary
    /\ call.first.owners[1].avg_priority # call.second.owners[1].avg_priority

---------------------------------------------------------------------------
(* Properties of the command-line programs *)

\* C20: in every run of the CLI (main) and of the seed script, a malformed --today date
\* string or a malformed database schema name is rejected before the core is invoked: in a
\* run that ends with the invalid-configuration exit no record is scored, no report is
\* printed and no JSON file is written.
C20_RejectedBeforeCore ==
    run.exit \in {InvalidTodayExit, InvalidSchemaExit} =>
        /\ pc # "ready"
        /\ scored = <<>>
        /\ ~run.printed
        /\ ~run.json_written

---------------------------------------------------------------------------
(* Properties of the report section *)

\* what build_report returns for the records and the configuration of the run
ReportOfRecords ==
    build_report(records, args.today, args.high_risk, args.medium_risk, args.soon_days,
                 args.stale_days, args.stale_boost)

\* a step of build_report or of an aggregator leaves the list it is given as it was
InputsUnchanged ==
    /\ (pc = "load" /\ pc' = "ready") => records' = records
    /\ pc = "ready" => (records' = records /\ scored' = scored)

---------------------------------------------------------------------------
(* Properties of the overdue aging *)

\* d days of overdue are in the range that the name of an aging bucket stands for
InAgingRange(bucket, d) ==
    CASE bucket = "1-7" -> d \in 1..7
      [] bucket = "8-14" -> d \in 8..14
      [] bucket = "15-30" -> d \in 15..30
      [] bucket = "31-60" -> d \in 31..60
      [] bucket = "61+" -> d >= 61

AgingBuckets == {"1-7", "8-14", "15-30", "31-60", "61+"}

\* C22: summarize_overdue_aging counts only records with status "overdue", each in exactly
\* one bucket by overdue_days: 1-7, 8-14, 15-30, 31-60, 61+; for a collection produced by
\* compute_priority the five bucket counts sum to the summary's overdue count and every
\* record counted in bucket "1-7" has overdue_days >= 1.
C22_OverdueAging ==
    call.op = "summarize_overdue_aging" =>
        LET collection == call.collection
            overdue == {i \in 1..Len(collection) : collection[i].status = "overdue"}
            inBucket(b) == {i \in overdue : InAgingRange(b, Val(collection[i].overdue_days))}
        IN  /\ DOMAIN call.result = AgingBuckets
            /\ \A b \in AgingBuckets : call.result[b] = Cardinality(inBucket(b))
            /\ \A i \in overdue : Cardinality({b \in AgingBuckets : i \in inBucket(b)}) = 1
            /\ call.result["1-7"] + call.result["8-14"] + call.result["15-30"]
                   + call.result["31-60"] + call.result["61+"] = call.summary.overdue
            /\ call.summary.overdue_aging = call.result

\* two overdue records at the two sides of the edge between the first two buckets, the
\* first overdue by exactly 7 days
C22_Witness ==
    /\ call.op = "summarize_overdue_aging"
    /\ call.result["1-7"] = 1
    /\ call.result["8-14"] = 1
    /\ \E i \in 1..2 : call.collection[i].overdue_days = Some(7)
    /\ \E i \in 1..2 : call.collection[i].overdue_days = Some(8)

---------------------------------------------------------------------------
(* Further properties of the scorer *)

\* the priority of a scoring before rounding, from the fields of the scored record, with
\* boost taken as the stale contribution
PriorityWith(s, boost) ==
    s.raw.risk_score
    + (IF s.out.status = "no-touch" THEN Milli(25) ELSE 0)
    + boost
    + (IF s.out.status = "overdue" THEN Milli(30)
       ELSE IF s.out.status = "due-soon" THEN Milli(12) ELSE 0)
    + Milli(8) * FlagHits(s.raw.flags)

\* C23: for every scored record, stale_touch is true if and only if a last-contact date
\* exists and days_since_touch >= the stale_days threshold; stale_days of the record equals
\* days_since_touch when stale_touch is true and is absent otherwise, and the stale boost
\* is added to the priority exactly when stale_touch is true.
C23_StaleTouch ==
    \A s \in Scorings :
        /\ s.out.stale_touch \in BOOLEAN
        /\ s.out.stale_touch <=>
              (/\ ~IsNone(s.raw.last_touch)
               /\ ~IsNone(s.out.days_since_touch)
               /\ Val(s.out.days_since_touch) >= s.cfg.stale_days)
        /\ ~IsNone(s.raw.last_touch) =>
              s.out.days_since_touch = Some(s.cfg.today - Val(s.raw.last_touch))
        /\ s.out.stale_days = (IF s.out.stale_touch THEN s.out.days_since_touch ELSE None)
        /\ s.out.priority_score =
              Round2(PriorityWith(s, IF s.out.stale_touch THEN s.cfg.stale_boost ELSE 0))

\* a record last contacted exactly stale_days ago: stale, with a boost that shows in the score
C23_Witness ==
    /\ call.op = "compute_priority"
    /\ call.cfg.stale_boost > 0
    /\ call.result.stale_touch
    /\ call.result.days_since_touch = Some(call.cfg.stale_days)
    /\ call.result.stale_days = Some(call.cfg.stale_days)
    /\ call.result.priority_score # Round2(PriorityWith([cfg |-> call.cfg, out |-> call.result,
                                                        raw |-> call.record], 0))

\* C25: for every scored record with a last-contact date, days_since_touch + due_in_days
\* = cadence_days, and overdue_days = max(0, days_since_touch - cadence_days); hence the
\* status is overdue exactly when days_since_touch > cadence_days, and a last-contact date
\* later than today (negative days_since_touch) gives due_in_days > cadence_days and is
\* never overdue.
C25_DayArithmetic ==
    \A s \in Scorings :
        ~IsNone(s.raw.last_touch) =>
            LET since == Val(s.out.days_since_touch)
                due == Val(s.out.due_in_days)
                cadence == s.out.cadence_days
            IN  /\ since = s.cfg.today - Val(s.raw.last_touch)
                /\ since + due = cadence
                /\ s.out.overdue_days = Some(Max(0, since - cadence))
                /\ s.out.status = "overdue" <=> since > cadence
                /\ since < 0 => (due > cadence /\ s.out.status # "overdue")
                /\ since = cadence => (due = 0 /\ s.out.overdue_days = Some(0))

\* a record whose last contact is three days after today
C25_Witness ==
    /\ call.op = "compute_priority"
    /\ call.result.days_since_touch = Some(-3)
    /\ call.result.due_in_days = Some(call.result.cadence_days + 3)
    /\ call.result.overdue_days = Some(0)
    /\ call.result.status # "overdue"

\* C26: whenever the stale_days threshold is greater than the record's cadence_days (in
\* particular for the default threshold 60 and every tier), every scored record with
\* stale_touch = true has status "overdue", so it receives both the stale boost and the
\* +30 overdue contribution and its reasons list the stale reason immediately before the
\* overdue reason.
C26_StaleImpliesOverdue ==
    /\ \A cadence \in {7, 21, 45} : 60 > cadence
    /\ \A s \in Scorings :
          (s.cfg.stale_days > s.out.cadence_days /\ s.out.stale_touch) =>
              LET since == Val(s.out.days_since_touch)
                  reasons == s.out.priority_reasons
              IN  /\ s.out.status = "overdue"
                  /\ s.out.priority_score =
                        Round2(s.raw.risk_score + s.cfg.stale_boost + Milli(30)
                               + Milli(8) * FlagHits(s.raw.flags))
                  /\ \E k \in 1..(Len(reasons) - 1) :
                        /\ reasons[k] = "stale last touch (" \o ToString(since) \o " days)"
                        /\ reasons[k + 1] = "overdue by "
                                            \o ToString(since - s.out.cadence_days) \o " days"

\* a call under the default threshold 60 of a record last contacted 75 days ago, with one
\* high-impact flag: stale and overdue, and its reasons put the stale reason second
C26_Witness ==
    /\ call.op = "compute_priority"
    /\ call.cfg.stale_days = 60
    /\ call.cfg.stale_days > call.result.cadence_days
    /\ call.result.stale_touch
    /\ call.result.days_since_touch = Some(75)
    /\ call.result.status = "overdue"
    /\ Len(call.result.priority_reasons) = 4
    /\ call.result.priority_reasons[2] = "stale last touch (75 days)"

\* the normalized owners of the scored records
ScoredOwners == {normalize_owner(scored[i].owner) : i \in 1..Len(scored)}

\* the buckets of a capacity result are in the order of the key: descending gap, then
\* descending overdue, then descending due_within_window, then owner ascending
CapacityInKeyOrder(result) ==
    \A i, j \in 1..Len(result) :
        i < j =>
            LET a == result[i]
                b == result[j]
            IN  /\ a.gap >= b.gap
                /\ a.gap = b.gap => a.overdue >= b.overdue
                /\ (a.gap = b.gap /\ a.overdue = b.overdue) =>
                        a.due_within_window >= b.due_within_window
                /\ (a.gap = b.gap /\ a.overdue = b.overdue
                        /\ a.due_within_window = b.due_within_window) =>
                        StrLess(a.owner, b.owner)

\* C24: summarize_owner_capacity returns one bucket per distinct normalized owner
\* (including owners whose records all lack a due date), sorted by descending gap, then
\* descending overdue, then descending due_within_window, then owner name ascending, so the
\* order of the result does not depend on the order of the input records.
C24_CapacityBuckets ==
    /\ call.op = "summarize_owner_capacity" =>
          /\ {call.result[i].owner : i \in 1..Len(call.result)} = ScoredOwners
          /\ Len(call.result) = Cardinality(ScoredOwners)
          /\ CapacityInKeyOrder(call.result)
    /\ call.op = "aggregators" =>
          /\ {call.first.owner_capacity[i].owner : i \in 1..Len(call.first.owner_capacity)}
                = ScoredOwners
          /\ CapacityInKeyOrder(call.first.owner_capacity)
          /\ call.second.owner_capacity = call.first.owner_capacity

\* two owners tied on gap, overdue and due_within_window, so that only the owner name
\* orders them, scored in the other order and given again in another ordering
C24_Witness ==
    /\ call.op = "aggregators"
    /\ call.order # [k \in 1..Len(scored) |-> k]
    /\ Len(call.first.owner_capacity) = 2
    /\ call.first.owner_capacity[1].owner = "Casey"
    /\ call.first.owner_capacity[2].owner = "Dee"
    /\ call.first.owner_capacity[1].overdue = 1
    /\ call.first.owner_capacity[2].overdue = 1
    /\ call.first.owner_capacity[1].gap = call.first.owner_capacity[2].gap
    /\ call.first.owner_capacity[1].due_within_window
          = call.first.owner_capacity[2].due_within_window
    /\ normalize_owner(scored[1].owner) = "Dee"

\* the buckets of an owner in a rollup
OwnerBuckets(rollup, owner) == {i \in 1..Len(rollup) : rollup[i].owner = owner}

\* the bucket of an owner in a rollup
OwnerBucket(rollup, owner) == rollup[CHOOSE i \in OwnerBuckets(rollup, owner) : TRUE]

\* the number of scored records of an owner
RecordsOfOwner(owner) ==
    Cardinality({i \in 1..Len(scored) : normalize_owner(scored[i].owner) = owner})

\* C27: for a scored collection produced by build_report the aggregators agree with each
\* other: for every owner, the overdue count of summarize_owners equals that of
\* summarize_owner_horizon and of summarize_owner_capacity, the owner's no_touch equals the
\* owner's no_due_date, and the owner's total is the same in every rollup that reports one;
\* likewise summary overdue = touchpoint_horizon overdue = forecast overdue and summary
\* no_touch = horizon no_due_date = forecast no_due_date.
C27_AggregatorsAgree ==
    call.op = "aggregators" =>
        LET a == call.first
        IN  /\ \A owner \in ScoredOwners :
                  /\ Cardinality(OwnerBuckets(a.owners, owner)) = 1
                  /\ Cardinality(OwnerBuckets(a.owner_horizon, owner)) = 1
                  /\ Cardinality(OwnerBuckets(a.owner_capacity, owner)) = 1
                  /\ OwnerBucket(a.owners, owner).overdue
                        = OwnerBucket(a.owner_horizon, owner).overdue
                  /\ OwnerBucket(a.owners, owner).overdue
                        = OwnerBucket(a.owner_capacity, owner).overdue
                  /\ OwnerBucket(a.owners, owner).no_touch
                        = OwnerBucket(a.owner_horizon, owner).no_due_date
                  /\ OwnerBucket(a.owners, owner).total
                        = OwnerBucket(a.owner_horizon, owner).total
                  /\ OwnerBucket(a.owners, owner).total = RecordsOfOwner(owner)
            /\ Len(a.owners) = Cardinality(ScoredOwners)
            /\ Len(a.owner_horizon) = Cardinality(ScoredOwners)
            /\ Len(a.owner_capacity) = Cardinality(ScoredOwners)
            /\ a.summary.overdue = a.horizon.overdue
            /\ a.summary.overdue = a.forecast.overdue
            /\ a.summary.no_touch = a.horizon.no_due_date
            /\ a.summary.no_touch = a.forecast.no_due_date

\* a report of three records of two owners, one overdue and one never contacted for the
\* same owner
C27_Witness ==
    /\ call.op = "aggregators"
    /\ Len(scored) = 3
    /\ Cardinality(ScoredOwners) = 2
    /\ "Casey" \in ScoredOwners
    /\ OwnerBucket(call.first.owners, "Casey").overdue = 1
    /\ OwnerBucket(call.first.owner_capacity, "Casey").overdue = 1
    /\ OwnerBucket(call.first.owners, "Casey").no_touch = 1
    /\ OwnerBucket(call.first.owner_horizon, "Casey").no_due_date = 1
    /\ call.first.summary.overdue >= 1
    /\ call.first.forecast.no_due_date = 1

\* the sum of the counts of a daily list
RECURSIVE DailySum(_)
DailySum(daily) == IF daily = <<>> THEN 0 ELSE Head(daily).count + DailySum(Tail(daily))

\* the offsets of the daily list the loop writes: 0 for an overdue record counted as due,
\* due_in_days for a record due within the window
WrittenOffsets(window_days, include_overdue) ==
    {Val(scored[i].due_in_days) : i \in {k \in 1..Len(scored) \ NoDueDate :
                                          /\ Val(scored[k].due_in_days) >= 0
                                          /\ Val(scored[k].due_in_days) <= window_days}}
    \cup IF include_overdue /\ DueBefore # {} THEN {0} ELSE {}

\* C28: in summarize_touchpoint_forecast every record is accounted for exactly once when
\* include_overdue is false: sum of daily counts + overdue + beyond_window + no_due_date =
\* number of records; when include_overdue is true the overdue records are counted both in
\* overdue and in daily bucket 0, so sum of daily counts + beyond_window + no_due_date =
\* number of records; no index outside 0..window_days of the daily list is ever written.
C28_ForecastAccounting ==
    call.op = "summarize_touchpoint_forecast" =>
        LET result == call.result
            window_days == result.window_days
        IN  /\ Len(result.daily) = window_days + 1
            /\ \A offset \in WrittenOffsets(window_days, call.include_overdue) :
                  offset \in 0..window_days /\ offset + 1 \in DOMAIN result.daily
            /\ ~call.include_overdue =>
                  DailySum(result.daily) + result.overdue + result.beyond_window
                      + result.no_due_date = Len(scored)
            /\ call.include_overdue =>
                  /\ DailySum(result.daily) + result.beyond_window + result.no_due_date
                        = Len(scored)
                  /\ result.daily[1].count >= result.overdue

\* overdue records counted as due, together with a record due on the last day of the window
C28_Witness ==
    /\ call.op = "summarize_touchpoint_forecast"
    /\ call.include_overdue
    /\ Len(scored) = 3
    /\ call.result.overdue = 2
    /\ call.result.daily[1].count = 2
    /\ call.result.daily[Len(call.result.daily)].count = 1
    /\ DailySum(call.result.daily) = 3

\* the positions of the report whose record the call counts into a bucket
PositionsOf(bucket) ==
    {i \in 1..Len(scored) : GroupKey(call.op, scored[i]) = BucketKey(call.op, bucket)}

\* the positions of the report whose record is among the items of a bucket
KeptOf(bucket) ==
    {i \in PositionsOf(bucket) :
        \E a \in 1..Len(bucket.items) : bucket.items[a].scholar_id = scored[i].scholar_id}

\* C29: when build_owner_queue and build_channel_batches are applied to the output of
\* build_report, the items kept for each owner/channel are that bucket's min(size, total)
\* highest-priority records, listed in non-increasing priority_score order: no record left
\* out of a bucket's items has a higher priority_score than a record kept in it.
C29_TopItems ==
    call.op \in {"build_owner_queue", "build_channel_batches"} =>
        \A b \in 1..Len(call.steps[Len(scored) + 1]) :
            LET bucket == call.steps[Len(scored) + 1][b]
                items == bucket.items
            IN  /\ Len(items) = Min(call.size, bucket.total)
                /\ Cardinality(KeptOf(bucket)) = Len(items)
                /\ \A a \in 1..Len(items) :
                      \E i \in PositionsOf(bucket) :
                          /\ items[a].scholar_id = scored[i].scholar_id
                          /\ items[a].priority_score = scored[i].priority_score
                /\ \A a, c \in 1..Len(items) :
                      a < c => items[a].priority_score >= items[c].priority_score
                /\ \A i \in PositionsOf(bucket) \ KeptOf(bucket) :
                      \A k \in KeptOf(bucket) :
                          scored[i].priority_score <= scored[k].priority_score

\* a channel batch of two records of different priority with room for one item: the item
\* is the record of the higher priority, and the batch is among the batches returned
C29_Witness ==
    /\ call.op = "build_channel_batches"
    /\ call.size = 1
    /\ \E b \in 1..Len(call.result) :
          /\ call.result[b].total = 2
          /\ Len(call.result[b].items) = 1
          /\ \E i \in PositionsOf(call.result[b]) \ KeptOf(call.result[b]) :
                scored[i].priority_score < call.result[b].items[1].priority_score

---------------------------------------------------------------------------
(* Properties of the database write *)

\* write_run_to_db was called in the run and reached the database
WriteReachedDatabase == run.stage = "exited" /\ run.schema_created

\* C30: every payload passed to write_run_to_db, by planner main and by the seed script's
\* main, contains every key that write_run_to_db reads, so a database write never fails on
\* a missing payload key and never leaves the schema created with no run row inserted.
C30_PayloadComplete ==
    /\ run.payload # {} => \A k \in 1..Len(PayloadReads) : PayloadReads[k] \in run.payload
    /\ \A k \in 1..Len(PayloadReads) : run.exit # KeyErrorExit(PayloadReads[k])
    /\ WriteReachedDatabase => run.stored

=============================================================================
